---- MODULE Spec2Model ----
(***************************************************************************)
(* KiTools: the COBS codec (kicobs.py), the KBI frame codec (kicmds.py)    *)
(* and the two serial transports (kiserial.py), as state machines.         *)
(*                                                                         *)
(* Octets are the integers 0..255.  A bytearray is a sequence of octets.   *)
(* Python's None is modelled by None (-1) where the other values of the    *)
(* field are naturals, and by the string "None" elsewhere.                 *)
(* The source compares small integers with "is"; every integer it so       *)
(* compares lies in -5..256 or is compared with 0, where CPython's         *)
(* identity and equality agree, so "is" is modelled as "=".                *)
(***************************************************************************)
EXTENDS Integers, Sequences, FiniteSets, TLC

(***************************************************************************)
(* Bounds of the model.                                                    *)
(***************************************************************************)
\* Number of runs (blocks of equal octets) an encoder input is made of.
MaxRuns == 2
\* Number of octets the device sends to a bare decoder.
MaxStream == 4
\* Number of payload octets of a frame built by KBICommand.
MaxPayload == 2
\* Number of ksh_cmd calls made on a transport.
MaxCalls == 1
\* Frames the device puts on the line on its own.
MaxFrames == 2
MaxNoise == 1
MaxOps == 3
MaxSinks == 2
\* octets of firmware in front of the suffix of a DFU file
MaxBody == 2
\* 64-octet blocks of firmware a flash worker sends
MaxBlocks == 2
\* devices selected for a flash run
MaxDevices == 19
\* tokens after the key of a text command
\* ksh_cmd calls made on a transport in shell mode
MaxShellCalls == 2
MaxArgs == 3
\* attempt outcomes in a script
MaxAttempts == 2
\* octets in front of a frame header
MaxJunk == 3

None == -1

VARIABLES
    \* -- COBS round trip (Encoder, Decoder) --
    input,      \* the octets handed to Encoder.encode
    delim,      \* whether the decoder is fed get_data() (TRUE) or out (FALSE)
    enc,        \* the Encoder object: out, data, zeros
    wire,       \* encoded octets not yet fed to the decoder
    dec,        \* the Decoder object: inc, out, remaining, zeros, length
    rets,       \* the values Decoder.decode returned, in call order
    cpc,        \* position of the round trip: "encode", "decode", "done"
    \* -- KBICommand / KBIResponse round trip --
    kreq,       \* the (type, code, payload) handed to KBICommand
    kcmd,       \* the KBICommand object built from it
    krsp,       \* the KBIResponse object parsed from its octets
    kpc,        \* "build", "parse", "done"
    tkey,       \* text_to_kbi: the entry of TEXT2CLI the command matches
    targs,      \* the tokens after the key
    tout,       \* the (type, code, payload) returned
    tpc,        \* "idle", "text", "done"
    \* -- serial port and device --
    rx,         \* octets the device has sent and the host has not read
    inbox,      \* request frames written to the port, not yet answered
    sent,       \* number of times the device has sent on its own
    run,        \* self.run
    \* -- the receiving code: kbi_cmd (KiSerial), _reader (KiSerialTh) --
    decoded,    \* the local Decoder object
    size,       \* the value of the last decode call (-2: read timeout)
    rsp,        \* the last KBIResponse built
    rdata,      \* _reader: octets of "data" the for loop has not taken;
                \* usb_cmd: the bytearray cmd_out
    read_queue, \* self.read_queue
    logs,       \* notifications printed on the log channel, in order
    rpc,        \* _reader: "loop", "read", "bytes", "deliver", "exit", "dead"
    \* -- KiSerialTh._writer --
    write_queue, \* self.write_queue
    \* -- the caller: ksh_cmd of either transport --
    txt_cmd,    \* the text command of the current call
    kbi_req,    \* the KBICommand built from it
    cmd_out,    \* the list of lines ksh_cmd returns
    exc,        \* the exception that left ksh_cmd, "None" when it returned
    got,        \* what each attempt of the call handed to ksh_cmd
    ends,       \* how each kbi_cmd of the call ended
    writes,     \* port.write calls made for the current call
    calls,      \* number of ksh_cmd calls begun
    pc,         \* position of the caller
    \* -- the threads and the port of KiSerialTh; observers of the port --
    wpc,        \* _writer: "loop", "get", "exit"
    closed,     \* port.close() has been called
    mode,       \* self.mode: "KBI" or "KSH"
    ops,        \* the last two calls made on the port, as <<thread, call>>
    outstanding, \* requests written whose outcome the caller has not seen
    arrived,    \* the frames the device has put on the line, in order
    \* -- KiSniffer --
    channel,    \* self.channel
    is_running, \* self.is_running
    thread,     \* self.thread: index in threads, 0 for None
    threads,    \* the capture threads ever started: position, header, frame
    handlers,   \* self.handlers: the sinks configured, by number
    sinks,      \* per sink ever made, the calls made on it, in order
    init_ts,    \* self.init_ts
    usec,       \* self.usec
    cmds,       \* the commands the sniffer has sent to the device, in order
    api,        \* the last call made on the sniffer and what it returned
    napi,       \* number of start, stop and set_channel calls made
    spc,        \* position of the thread that calls the sniffer
    \* -- kidfu.DfuFile --
    readable,   \* open(path, 'rb') succeeds
    file_data,  \* the octets of the file at path
    dfu_file,   \* the DfuFile made from it, or the exception raised
    fpc,        \* "idle", "new", "done"
    \* -- one flash worker: kifwu.kbi_flash or kifwu.dfu_flash --
    bnum,       \* the block the worker is at
    retries,    \* kbi_flash: transmissions left for the block
    flash_req,  \* the frame or request the worker sent last
    flash_rsp,  \* what the call that sent it returned
    txcount,    \* per block, the transmissions made of it
    resets,     \* resets (KBI) or zero-length downloads (DFU) sent
    queue,      \* the outcome queue
    fexc,       \* the exception raised in the worker, "None" when none was
    status,     \* dfu_flash: the state of the last GETSTATUS, None before
    dlog,       \* dfu_flash: the requests made and the states reported
    fwpc,       \* position of the worker
    \* -- the supervisor: kifwu.dfu_find_and_flash and parallel_program --
    dfus_selected, \* the devices still to be flashed
    batch,      \* the devices parallel_program was called with
    nstarted,   \* threads of the batch started so far
    njoined,    \* threads of the batch joined so far
    joinee,     \* the thread next to be joined: "new", "alive", "put", "dead"
    alive,      \* the other started threads that are at work
    leaving,    \* the other started threads that have put and not yet ended
    dead,       \* the other started threads that have terminated
    qsize,      \* outcomes in the queue of the batch
    nresults,   \* outcomes collected since the run began
    flashed,    \* the devices a worker was started for, in order
    ppc,        \* position of the supervisor
    \* -- KiSerial.wait_for --
    wf_value,   \* vset, the set of the lines waited for
    wf_inverse, \* the inverse argument
    wf_polls,   \* calls of ksh_cmd made so far
    wf_rset,    \* rset, the lines of the last response
    wf_pc,      \* "idle", "loop", "test", "returned", "raised"
    \* -- a KiraleFrameHeader fed a stream of octets --
    hstream,    \* the octets still to come
    hobj,       \* the header object
    hfed,       \* the octets given to add_byte so far
    hrets,      \* what add_byte returned for each of them
    \* -- ksh_cmd of both transports on one script of attempt outcomes --
    eq_req,     \* the request, a KBICommand
    eq_outs,    \* how each attempt is to end
    eq_poll,    \* the call of KiSerial.ksh_cmd: position, writes, result
    eq_th       \* the call of KiSerialTh.ksh_cmd: position, writes, result

cobsVars == <<input, delim, enc, wire, dec, rets, cpc>>
textVars == <<tkey, targs, tout, tpc>>
kbiVars == <<kreq, kcmd, krsp, kpc, textVars>>
portVars == <<rx, inbox, sent, run>>
readerVars == <<rdata, decoded, size, rsp, read_queue, logs, rpc>>
callerVars ==
    <<write_queue, txt_cmd, kbi_req, cmd_out, exc, got, ends, writes, calls, pc>>

thVars == <<wpc, closed, mode, ops, outstanding, arrived>>
snifVars ==
    <<channel, is_running, thread, threads, handlers, sinks, init_ts, usec,
      cmds, api, napi, spc>>

fileVars == <<readable, file_data, dfu_file, fpc>>
workerVars ==
    <<bnum, retries, flash_req, flash_rsp, txcount, resets, queue, fexc,
      status, dlog, fwpc>>

supVars ==
    <<dfus_selected, batch, nstarted, njoined, joinee, alive, leaving, dead,
      qsize, nresults, flashed, ppc>>

fwuVars == <<fileVars, workerVars, supVars>>
waitVars == <<wf_value, wf_inverse, wf_polls, wf_rset, wf_pc>>
hdrVars == <<hstream, hobj, hfed, hrets>>
\* the parts that are run on their own
eqVars == <<eq_req, eq_outs, eq_poll, eq_th>>
unitVars == <<waitVars, hdrVars, eqVars>>

vars ==
    <<cobsVars, kbiVars, portVars, readerVars, callerVars, thVars, snifVars,
      fwuVars, unitVars>>

(***************************************************************************)
(* Sequence helpers (Python slices).                                       *)
(***************************************************************************)
Min(a, b) == IF a < b THEN a ELSE b
Max(a, b) == IF a > b THEN a ELSE b

\* s[:n]
Take(s, n) == SubSeq(s, 1, Min(n, Len(s)))
\* s[n:]
Drop(s, n) == SubSeq(s, Min(n, Len(s)) + 1, Len(s))
\* bytearray(n): n zero octets
Zeros(n) == [i \in 1..n |-> 0]
\* n copies of octet b
Rep(b, n) == [i \in 1..n |-> b]

(***************************************************************************)
(* kicobs.Encoder                                                          *)
(* self.zeros is a bytearray that only ever holds zero octets (it is a     *)
(* groupby block of zeros, sliced); the model keeps its length.            *)
(***************************************************************************)
EncoderInit == [out |-> <<>>, data |-> <<>>, zeros |-> 0]

enc_step(e, code, dlen, zlen) ==
    [out   |-> e.out \o <<code>> \o Take(e.data, dlen),
     data  |-> Drop(e.data, dlen),
     zeros |-> Max(e.zeros - zlen, 0)]

\* A slip: a long block takes one octet less than its code stands for.
RECURSIVE EncLongDataCE(_)
EncLongDataCE(e) ==
    IF Len(e.data) >= 207 THEN EncLongDataCE(enc_step(e, 208, 208 - 2, 0)) ELSE e

\* while len(self.data) >= 0xcf: self._enc_step(0xd0, 0xd0 - 1, 0)
RECURSIVE EncLongData(_)
EncLongData(e) ==
    IF Len(e.data) >= 207 THEN EncLongData(enc_step(e, 208, 208 - 1, 0)) ELSE e

\* A slip: "len(self.zeros) > 0".
EncTwoZerosAnyZero(e) ==
    IF e.zeros > 0 /\ Len(e.data) <= 30
    THEN enc_step(e, 224 + Len(e.data), Len(e.data), 2)
    ELSE e

\* if len(self.zeros) > 1 and len(self.data) <= 0x1e
EncTwoZeros(e) ==
    IF e.zeros > 1 /\ Len(e.data) <= 30
    THEN enc_step(e, 224 + Len(e.data), Len(e.data), 2)
    ELSE e

\* while len(self.zeros) > 15 and len(self.data) is 0
RECURSIVE EncZeroRuns(_)
EncZeroRuns(e) ==
    IF e.zeros > 15 /\ Len(e.data) = 0
    THEN EncZeroRuns(enc_step(e, 223, 0, 15))
    ELSE e

\* A slip: the run code counts one zero less than the run holds.
EncZeroRunOneLess(e) ==
    IF e.zeros > 2 /\ Len(e.data) = 0
    THEN enc_step(e, 208 + e.zeros - 1, 0, e.zeros)
    ELSE e

\* if len(self.zeros) > 2 and len(self.data) is 0
EncZeroRun(e) ==
    IF e.zeros > 2 /\ Len(e.data) = 0
    THEN enc_step(e, 208 + e.zeros, 0, e.zeros)
    ELSE e

\* A slip: the code octet counts the data octets only.
RECURSIVE EncTrailingNoPlusOne(_)
EncTrailingNoPlusOne(e) ==
    IF e.zeros > 0
    THEN EncTrailingNoPlusOne(enc_step(e, Len(e.data), Len(e.data), 1))
    ELSE e

\* while self.zeros: self._enc_step(len(self.data) + 1, len(self.data), 1)
RECURSIVE EncTrailing(_)
EncTrailing(e) ==
    IF e.zeros > 0
    THEN EncTrailing(enc_step(e, Len(e.data) + 1, Len(e.data), 1))
    ELSE e

\* The body of "for block in blocks" for a block of zeros of length n.
EncZeroBlock(e, n) ==
    EncTrailing(EncZeroRun(EncZeroRuns(EncTwoZeros(EncLongData(
        [e EXCEPT !.zeros = n])))))

\* Length of the groupby block that starts at index i of s: up to the first
\* index whose octet falls on the other side of the key "x is 0".
BlockLen(s, i) ==
    LET other == {j \in (i + 1)..Len(s) : (s[j] = 0) # (s[i] = 0)}
    IN  IF other = {} THEN Len(s) - i + 1
        ELSE (CHOOSE j \in other : \A k \in other : j <= k) - i

\* "for block in groupby(...)" from index i of s on.
RECURSIVE EncBlocks(_, _, _)
EncBlocks(e, s, i) ==
    IF i > Len(s) THEN e
    ELSE LET n == BlockLen(s, i) IN
         IF s[i] # 0
         THEN EncBlocks([e EXCEPT !.data = SubSeq(s, i, i + n - 1)], s, i + n)
         ELSE EncBlocks(EncZeroBlock(e, n), s, i + n)

\* Encoder.encode(data)
encode(e, data) == EncBlocks(e, data \o Zeros(1), 1)

\* Encoder.get_data()
enc_get_data(e) == Zeros(1) \o e.out

(***************************************************************************)
(* kicobs.Decoder                                                          *)
(***************************************************************************)
DecoderInit ==
    [inc |-> <<>>, out |-> <<>>, remaining |-> 0, zeros |-> 0, length |-> None]

\* struct.unpack('>H', b)[0] for a two-octet b
UnpackH(b) == b[1] * 256 + b[2]

\* "Analyze code" / "Append data" (lines 85-113): the object's fields and ret.
\* On a delimiter the branch "self = Decoder()" rebinds the local name only:
\* the rest of the call works on the new object (and returns 0), the
\* decoder the caller holds keeps every field but inc.
DecAnalyze(d, byte) ==
    IF d.remaining = 0
    THEN IF byte >= 255 THEN [d |-> d, ret |-> -1, rebound |-> FALSE]
         ELSE IF byte >= 224
              THEN [d |-> [d EXCEPT !.remaining = byte - 224, !.zeros = 2],
                    ret |-> 0, rebound |-> FALSE]
         ELSE IF byte > 210
              THEN [d |-> [d EXCEPT !.zeros = byte - 208],
                    ret |-> 0, rebound |-> FALSE]
         ELSE IF byte > 208 THEN [d |-> d, ret |-> -1, rebound |-> FALSE]
         ELSE IF byte = 208
              THEN [d |-> [d EXCEPT !.remaining = byte - 1],
                    ret |-> 0, rebound |-> FALSE]
         ELSE IF byte > 0
              THEN [d |-> [d EXCEPT !.remaining = byte - 1, !.zeros = 1],
                    ret |-> 0, rebound |-> FALSE]
         ELSE [d |-> d, ret |-> 0, rebound |-> TRUE]
    ELSE [d |-> [d EXCEPT !.out = @ \o <<byte>>, !.remaining = @ - 1],
          ret |-> 0, rebound |-> FALSE]

\* "Append zeros" (lines 115-118)
DecAppendZeros(d) ==
    IF d.remaining = 0
    THEN [d EXCEPT !.out = @ \o Zeros(d.zeros), !.zeros = 0]
    ELSE d

\* A slip: the octet past the frame is not cut off.
DecFinishNoCut(d, ret) ==
    IF d.length = None
    THEN IF Len(d.out) >= 2
         THEN [d |-> [d EXCEPT !.length = UnpackH(Take(d.out, 2)) + 5],
               ret |-> ret]
         ELSE [d |-> d, ret |-> ret]
    ELSE IF Len(d.out) > d.length
         THEN [d |-> d, ret |-> d.length]
         ELSE [d |-> d, ret |-> ret]

\* "Extract message length" / "Check finish" (lines 120-127)
DecFinish(d, ret) ==
    IF d.length = None
    THEN IF Len(d.out) >= 2
         THEN [d |-> [d EXCEPT !.length = UnpackH(Take(d.out, 2)) + 5],
               ret |-> ret]
         ELSE [d |-> d, ret |-> ret]
    ELSE IF Len(d.out) > d.length
         THEN [d |-> [d EXCEPT !.out = Take(d.out, Len(d.out) - 1)],
               ret |-> d.length]
         ELSE [d |-> d, ret |-> ret]

\* Decoder.decode(byte): the decoder object afterwards and the value returned.
decode(d0, byte) ==
    LET d == [d0 EXCEPT !.inc = @ \o <<byte>>]
        a == DecAnalyze(d, byte)
    IN  IF a.rebound
        THEN [d |-> d, ret |-> DecFinish(DecAppendZeros(DecoderInit), 0).ret]
        ELSE DecFinish(DecAppendZeros(a.d), a.ret)

\* Decoder.get_data()
dec_get_data(d) == d.out

(***************************************************************************)
(* Inputs of the round trip: concatenations of at most MaxRuns runs, bare  *)
(* or behind a two-octet big-endian length that makes them a KBI frame.    *)
(***************************************************************************)
\* Lengths on both sides of every threshold of encode: 0x1e, 0xcf, 1, 2, 15.
DataRunLens == {1, 30, 31, 207, 208}
ZeroRunLens == {1, 2, 3, 15, 16, 18}
DataOctets == {65}
RunSet ==
    {<<b, n>> : b \in DataOctets, n \in DataRunLens}
    \cup {<<0, n>> : n \in ZeroRunLens}

RECURSIVE Concat(_)
Concat(rs) ==
    IF rs = <<>> THEN <<>> ELSE Rep(rs[1][1], rs[1][2]) \o Concat(Tail(rs))

RunSeqs == UNION {[1..n -> RunSet] : n \in 0..MaxRuns}

\* len_hi len_lo in front of a body of L + 3 octets (type code xor payload)
Framed(body) ==
    <<(Len(body) - 3) \div 256, (Len(body) - 3) % 256>> \o body

Inputs ==
    {Concat(rs) : rs \in RunSeqs}
    \cup {Framed(Concat(rs)) : rs \in {r \in RunSeqs : Len(Concat(r)) >= 3}}

\* A well-formed KBI frame: octets 0..1 hold |F| - 5.
WellFormed(F) == Len(F) >= 5 /\ UnpackH(Take(F, 2)) = Len(F) - 5

(***************************************************************************)
(* The round trip: kbi_cmd's "enc_cmd = Encoder(); enc_cmd.encode(...)"    *)
(* then a fresh Decoder fed one octet per call.                            *)
(***************************************************************************)
CobsIdle ==
    /\ input = <<>>
    /\ delim = FALSE
    /\ enc = EncoderInit
    /\ wire = <<>>
    /\ dec = DecoderInit
    /\ rets = <<>>
    /\ cpc = "idle"

CobsInit ==
    /\ input \in Inputs
    /\ delim \in BOOLEAN
    /\ enc = EncoderInit
    /\ wire = <<>>
    /\ dec = DecoderInit
    /\ rets = <<>>
    /\ cpc = "encode"

Encode ==
    /\ cpc = "encode"
    /\ enc' = encode(enc, input)
    /\ wire' = IF delim THEN enc_get_data(enc') ELSE enc'.out
    /\ cpc' = "decode"
    /\ UNCHANGED <<input, delim, dec, rets>>
    /\ UNCHANGED <<kbiVars, portVars, readerVars, callerVars, thVars, snifVars, fwuVars, unitVars>>

Decode ==
    /\ cpc = "decode"
    /\ wire # <<>>
    /\ LET r == decode(dec, Head(wire)) IN
        /\ dec' = r.d
        /\ rets' = Append(rets, r.ret)
    /\ wire' = Tail(wire)
    /\ cpc' = IF Tail(wire) = <<>> THEN "done" ELSE "decode"
    /\ UNCHANGED <<input, delim, enc>>
    /\ UNCHANGED <<kbiVars, portVars, readerVars, callerVars, thVars, snifVars, fwuVars, unitVars>>

(***************************************************************************)
(* kicmds: KBI frames.                                                     *)
(***************************************************************************)
CT_CMD == 64
CT_GOL == 80
CT_RSC == 128
CT_RSG == 144
CT_NTF == 192
RC_OK == 0
RC_VALUE == 1
RC_BADPAR == 2
RC_BADCOM == 3
RC_NOTALL == 4
RC_MEMERR == 5
RC_CFGERR == 6
RC_FWUERR == 7
NC_PINGR == 0
NC_UDP == 1
NC_DSTUN == 4
NC_PINGR_N == 5
NC_UDP_N == 6

\* a ^ b, a & b and a | b on naturals
RECURSIVE BitXor(_, _)
BitXor(a, b) ==
    IF a = 0 THEN b
    ELSE IF b = 0 THEN a
    ELSE ((a + b) % 2) + 2 * BitXor(a \div 2, b \div 2)

RECURSIVE BitAnd(_, _)
BitAnd(a, b) ==
    IF a = 0 \/ b = 0 THEN 0
    ELSE ((a % 2) * (b % 2)) + 2 * BitAnd(a \div 2, b \div 2)

BitOr(a, b) == a + b - BitAnd(a, b)

\* reduce(xor, s) for a non-empty s; xor is associative, and the fold is
\* taken by halves.
RECURSIVE ReduceXor(_)
ReduceXor(s) ==
    IF Len(s) = 1 THEN s[1]
    ELSE LET h == Len(s) \div 2
         IN  BitXor(ReduceXor(SubSeq(s, 1, h)),
                    ReduceXor(SubSeq(s, h + 1, Len(s))))

\* struct.pack('>H', n)
PackH(n) == <<n \div 256, n % 256>>

\* The entries of TEXT2CLI that take no parameter and that the model sends.
TEXT2CLI ==
    "clear" :> <<CT_CMD, 0>> @@ "show uptime" :> <<CT_CMD, 66>> @@
    "show swver" :> <<CT_CMD, 74>>

\* text_to_kbi(txt_cmd) for a text that is an entry's key or matches none:
\* (type, code, payload), (None, None, bytearray()) when no key matches.
text_to_kbi(txt) ==
    IF txt \in DOMAIN TEXT2CLI
    THEN <<TEXT2CLI[txt][1], TEXT2CLI[txt][2], <<>>>>
    ELSE <<None, None, <<>>>>

\* A slip: the checksum is taken before type and code are packed.
KBICommandXorFirst(txt, ctype, ccode, cpload) ==
    LET early == PackH(Len(cpload)) \o <<0, 0, 0>> \o cpload
    IN  [isNone |-> FALSE, valid |-> TRUE,
         data |-> PackH(Len(cpload)) \o <<ctype, ccode, ReduceXor(early)>>
                      \o cpload]

\* KBICommand.__init__(txt_cmd, ctype, ccode, cpload); txt "" is falsy.
KBICommand(txt, ctype, ccode, cpload) ==
    LET t == IF txt # "" THEN text_to_kbi(txt)
             ELSE <<ctype, ccode, cpload>>
        cmd_type == t[1]
        cmd_code == t[2]
        cmd_payload == t[3]
        filled == PackH(Len(cmd_payload)) \o <<cmd_type, cmd_code, 0>>
                      \o cmd_payload
    IN  IF cmd_type # None /\ cmd_code # None
        THEN [isNone |-> FALSE, valid |-> TRUE,
              data |-> [filled EXCEPT ![5] = ReduceXor(filled)]]
        ELSE [isNone |-> FALSE, valid |-> FALSE, data |-> Zeros(5)]

(***************************************************************************)
(* kicmds.text_to_kbi for entries of TEXT2CLI that take parameters.  A     *)
(* token of the command is the sequence of its character codes.            *)
(***************************************************************************)
TYP_DEC == 0
TYP_HEX == 1
TYP_STRN == 10

IsDigit(c) == c \in 48..57
HexVal(c) ==
    IF c \in 48..57 THEN c - 48
    ELSE IF c \in 97..102 THEN c - 87
    ELSE IF c \in 65..70 THEN c - 55
    ELSE None

\* int(str_, 10) for a string of decimal digits
RECURSIVE IntOf(_)
IntOf(s) == IF s = <<>> THEN 0 ELSE 10 * IntOf(Take(s, Len(s) - 1)) + (s[Len(s)] - 48)

\* struct.pack('>B' / '>H' / '>L', n)
PackN(n, sz) == [i \in 1..sz |-> (n \div (256 ^ (sz - i))) % 256]

\* bytearray.fromhex(h) for an h of hexadecimal digits, two per octet
FromHex(h) ==
    [i \in 1..(Len(h) \div 2) |-> 16 * HexVal(h[2 * i - 1]) + HexVal(h[2 * i])]

\* s2b(type_, str_, size): the octets, None for a HEX string that is not
\* "0x" and an even number of characters, or the exception raised.
s2b(type_, str_, sz) ==
    IF type_ = TYP_DEC
    THEN IF str_ # <<>> /\ \A i \in 1..Len(str_) : IsDigit(str_[i])
         THEN IF IntOf(str_) < 256 ^ sz
              THEN [exc |-> "None", isNone |-> FALSE,
                    ret |-> PackN(IntOf(str_), sz)]
              ELSE [exc |-> "struct.error", isNone |-> TRUE, ret |-> <<>>]
         ELSE [exc |-> "ValueError", isNone |-> TRUE, ret |-> <<>>]
    ELSE IF type_ = TYP_HEX
    THEN IF Len(str_) % 2 = 0 /\ Take(str_, 2) = <<48, 120>>
         THEN IF \A i \in 3..Len(str_) : HexVal(str_[i]) # None
              THEN [exc |-> "None", isNone |-> FALSE,
                    ret |-> FromHex(Drop(str_, 2))]
              ELSE [exc |-> "ValueError", isNone |-> TRUE, ret |-> <<>>]
         ELSE [exc |-> "None", isNone |-> TRUE, ret |-> <<>>]
    ELSE \* TYP.STRN
         [exc |-> "None", isNone |-> FALSE,
          ret |-> Take(str_, sz) \o Zeros(sz - Len(Take(str_, sz)) + 1)]

\* Entries of TEXT2CLI with 'params': each parameter is the type and the
\* size its lambda hands to s2b.
TEXT2CLI_params ==
    "config socket add" :>
        [type |-> CT_CMD, code |-> 9, params |-> << <<TYP_DEC, 2>> >>,
         lastParamOptional |-> TRUE] @@
    "config socket del" :>
        [type |-> CT_CMD, code |-> 137, params |-> << <<TYP_DEC, 2>> >>,
         lastParamOptional |-> FALSE] @@
    "config panid" :>
        [type |-> CT_CMD, code |-> 17, params |-> << <<TYP_HEX, 0>> >>,
         lastParamOptional |-> FALSE] @@
    "nping" :>
        [type |-> CT_CMD, code |-> 55,
         params |-> << <<TYP_STRN, 31>>, <<TYP_DEC, 2>> >>,
         lastParamOptional |-> FALSE]

\* "for param in required_params: payload += param(received_params.pop(0))"
\* from parameter i on: the payload, or failed when pop finds the list
\* empty, the coercer raises or "+=" is handed None.
RECURSIVE FillPayload(_, _, _, _)
FillPayload(required, received, i, payload) ==
    IF i > Len(required) THEN [failed |-> FALSE, payload |-> payload]
    ELSE IF i > Len(received) THEN [failed |-> TRUE, payload |-> payload]
    ELSE LET b == s2b(required[i][1], received[i], required[i][2])
         IN  IF b.exc # "None" \/ b.isNone
             THEN [failed |-> TRUE, payload |-> payload]
             ELSE FillPayload(required, received, i + 1, payload \o b.ret)

\* text_to_kbi(txt_cmd) for a text made of the words of key, an entry with
\* parameters, and then the tokens received_params.
text_to_kbi_params(key, received_params) ==
    LET cmd_def == TEXT2CLI_params[key]
        all == cmd_def.params
        required_params ==
            IF all # <<>> /\ Len(all) = Len(received_params) + 1
            THEN Take(all, Len(all) - 1)
            ELSE all
        f == FillPayload(required_params, received_params, 1, <<>>)
    IN  IF f.failed THEN <<None, None, None>>
        ELSE <<cmd_def.type, cmd_def.code, f.payload>>

\* KBIResponse.__init__(response, size)
KBIResponse(response, sz) ==
    [isNone |-> FALSE,
     data   |-> response,
     valid  |-> /\ sz > 4
                /\ ReduceXor(Take(response, 4)
                      \o SubSeq(response, 6, Min(sz, Len(response))))
                   = response[5]
                /\ UnpackH(Take(response, 2)) = sz - 5]

\* The None that stands for a response on the read queue and in kbi_cmd.
RspNone == [isNone |-> TRUE, valid |-> FALSE, data |-> <<>>]

is_valid(c) == c.valid
get_data(c) == c.data
get_type(c) == c.data[3]
get_code(c) == c.data[4]
get_payload(c) == Drop(c.data, 5)

\* KBIResponse.is_notification()
is_notification(r) == BitAnd(get_type(r), CT_NTF) = CT_NTF

\* The printer table: (type, code) -> name of the printed value.
CLI2TEXT ==
    <<129, 9>> :> "socket" @@ <<129, 66>> :> "uptime" @@
    <<129, 68>> :> "autojoin" @@ <<129, 69>> :> "status" @@
    <<129, 74>> :> "swver" @@ <<129, 75>> :> "hwver" @@
    <<129, 76>> :> "snum" @@ <<129, 77>> :> "emac" @@
    <<129, 78>> :> "eui64" @@ <<129, 79>> :> "lowpower" @@
    <<129, 80>> :> "txpower" @@ <<129, 81>> :> "panid" @@
    <<129, 82>> :> "channel" @@ <<129, 83>> :> "xpanid" @@
    <<129, 84>> :> "netname" @@ <<129, 85>> :> "mkey" @@
    <<129, 86>> :> "commcred" @@ <<129, 87>> :> "joincred" @@
    <<129, 88>> :> "joiner" @@ <<129, 89>> :> "role" @@
    <<129, 90>> :> "rloc16" @@ <<129, 92>> :> "mlprefix" @@
    <<129, 93>> :> "maxchild" @@ <<129, 94>> :> "timeout" @@
    <<129, 95>> :> "xpanfilt" @@ <<129, 96>> :> "ipaddr" @@
    <<129, 98>> :> "heui64" @@ <<129, 99>> :> "pollrate" @@
    <<129, 104>> :> "parent" @@ <<129, 105>> :> "routert" @@
    <<129, 106>> :> "ldrdata" @@ <<129, 107>> :> "netdata" @@
    <<129, 108>> :> "stats" @@ <<129, 109>> :> "childt" @@
    <<129, 112>> :> "hwmode" @@ <<129, 113>> :> "led" @@
    <<129, 114>> :> "vname" @@ <<129, 115>> :> "vmodel" @@
    <<129, 116>> :> "vdata" @@ <<129, 117>> :> "vswver" @@
    <<129, 118>> :> "actstamp" @@ <<129, 121>> :> "services" @@
    <<145, 65>> :> "commsid" @@ <<145, 75>> :> "kseqcounter"

\* A line of text: a fixed string, or the text a printer or a notification
\* layout makes of a payload (the printers themselves are not modelled).
Line(str) == <<str, <<>>>>
Printed(name, payload) == <<name, payload>>

\* kbi_to_text(ctype, ccode, payload).splitlines(): the lines, or the
\* exception the table lookup raises.  payload is a bytearray, never None.
kbi_to_text(ctype, ccode, payload) ==
    IF ctype = BitOr(CT_RSC, RC_OK) \/ (ctype = BitOr(CT_RSG, RC_OK) /\ FALSE)
    THEN [exc |-> "None", lines |-> <<>>]
    ELSE IF ctype = BitOr(CT_RSC, RC_VALUE) \/ ctype = BitOr(CT_RSG, RC_VALUE)
    THEN IF <<ctype, ccode>> \in DOMAIN CLI2TEXT
         THEN [exc |-> "None",
               lines |-> <<Printed(CLI2TEXT[<<ctype, ccode>>], payload)>>]
         ELSE [exc |-> "KeyError", lines |-> <<>>]
    ELSE IF ctype = BitOr(CT_RSC, RC_BADPAR) \/ ctype = BitOr(CT_RSG, RC_BADPAR)
    THEN [exc |-> "None", lines |-> <<Line("Bad parameter")>>]
    ELSE IF ctype = BitOr(CT_RSC, RC_BADCOM) \/ ctype = BitOr(CT_RSG, RC_BADCOM)
    THEN [exc |-> "None", lines |-> <<Line("Bad command")>>]
    ELSE IF ctype = BitOr(CT_RSC, RC_NOTALL) \/ ctype = BitOr(CT_RSG, RC_NOTALL)
    THEN [exc |-> "None", lines |-> <<Line("Command not allowed")>>]
    ELSE IF ctype = BitOr(CT_RSC, RC_MEMERR) \/ ctype = BitOr(CT_RSG, RC_MEMERR)
    THEN [exc |-> "None", lines |-> <<Line("Memory allocation error")>>]
    ELSE IF ctype = BitOr(CT_RSC, RC_CFGERR) \/ ctype = BitOr(CT_RSG, RC_CFGERR)
    THEN [exc |-> "None", lines |-> <<Line("Configuration conflict error")>>]
    ELSE IF ctype = BitOr(CT_RSC, RC_FWUERR) \/ ctype = BitOr(CT_RSG, RC_FWUERR)
    THEN [exc |-> "None", lines |-> <<Line("Firmware update error")>>]
    ELSE [exc |-> "None", lines |-> <<Line("Unknown error")>>]

\* to_text lines 527-555: the payload octets a notification's text reads
\* with b2s(TYP.DEC, payload[a:b]); b2s raises ValueError (int('', 16)) on an
\* empty slice, so a shorter payload makes to_text raise.
NtfMinLen(code) ==
    IF code = NC_PINGR THEN 21
    ELSE IF code = NC_PINGR_N THEN 53
    ELSE IF code = NC_UDP \/ code = NC_UDP_N THEN 3
    ELSE 0

\* KBIResponse.to_text().splitlines()
to_text(r) ==
    IF is_notification(r)
    THEN LET code == BitAnd(get_type(r), 15) IN
         IF Len(get_payload(r)) < NtfMinLen(code)
         THEN [exc |-> "ValueError", lines |-> <<>>]
         ELSE
         [exc |-> "None",
          lines |-> <<Printed(
              IF code = NC_PINGR THEN "# ping reply"
              ELSE IF code = NC_PINGR_N THEN "# ping reply named"
              ELSE IF code = NC_UDP THEN "# udp rcv"
              ELSE IF code = NC_UDP_N THEN "# udp rcv named"
              ELSE IF code = NC_DSTUN THEN "# dst unreachable"
              ELSE "# unknown notification", get_payload(r))>>]
    ELSE kbi_to_text(get_type(r), get_code(r), get_payload(r))

(***************************************************************************)
(* KBICommand(None, type, code, payload) and a KBIResponse built from its  *)
(* octets.                                                                 *)
(***************************************************************************)
KbiOctets == {0, 1, 64, 129, 255}
Payloads == UNION {[1..n -> KbiOctets] : n \in 0..MaxPayload}

\* No text command has been given.
TextIdle ==
    /\ tkey = ""
    /\ targs = <<>>
    /\ tout = <<None, None, None>>
    /\ tpc = "idle"

KbiIdle ==
    /\ kreq = <<0, 0, <<>>>>
    /\ kcmd = RspNone
    /\ krsp = RspNone
    /\ kpc = "idle"
    /\ TextIdle

KbiInit ==
    /\ kreq \in KbiOctets \X KbiOctets \X Payloads
    /\ kcmd = RspNone
    /\ krsp = RspNone
    /\ kpc = "build"
    /\ TextIdle

Build ==
    /\ kpc = "build"
    /\ kcmd' = KBICommand("", kreq[1], kreq[2], kreq[3])
    /\ kpc' = "parse"
    /\ UNCHANGED <<kreq, krsp, textVars>>
    /\ UNCHANGED <<cobsVars, portVars, readerVars, callerVars, thVars, snifVars, fwuVars, unitVars>>

Parse ==
    /\ kpc = "parse"
    /\ krsp' = KBIResponse(get_data(kcmd), Len(get_data(kcmd)))
    /\ kpc' = "done"
    /\ UNCHANGED <<kreq, kcmd, textVars>>
    /\ UNCHANGED <<cobsVars, portVars, readerVars, callerVars, thVars, snifVars, fwuVars, unitVars>>

\* The tokens a command is given: a decimal, a hexadecimal and a word.
Tokens == {<<55>>, <<48, 120, 48, 49, 48, 50>>, <<120>>}

TextInit ==
    /\ tkey \in DOMAIN TEXT2CLI_params
    /\ targs \in UNION {[1..n -> Tokens] : n \in 0..MaxArgs}
    /\ tout = <<None, None, None>>
    /\ tpc = "text"

\* kbi_req = kicmds.KBICommand(txt_cmd): text_to_kbi, then the frame.
TextToKbi ==
    /\ tpc = "text"
    /\ tout' = text_to_kbi_params(tkey, targs)
    /\ kcmd' = KBICommand("", tout'[1], tout'[2], tout'[3])
    /\ tpc' = "done"
    /\ UNCHANGED <<tkey, targs, kreq, krsp, kpc>>
    /\ UNCHANGED <<cobsVars, portVars, readerVars, callerVars, thVars, snifVars, fwuVars, unitVars>>

(***************************************************************************)
(* KiSerialTh._reader in KBI mode.                                         *)
(***************************************************************************)
PortIdle ==
    /\ rx = <<>>
    /\ inbox = <<>>
    /\ sent = 0
    /\ run = TRUE

\* KiSerialTh.start has run; no call has been made on the port yet.
ThIdle ==
    /\ wpc = "loop"
    /\ closed = FALSE
    /\ mode = "KBI"
    /\ ops = <<>>
    /\ outstanding = 0
    /\ arrived = <<>>

\* KiSniffer.__init__ lines 114-121
SnifIdle ==
    /\ channel = 0
    /\ is_running = FALSE
    /\ thread = 0
    /\ threads = <<>>
    /\ handlers = <<>>
    /\ sinks = <<>>
    /\ init_ts = 0
    /\ usec = 0
    /\ cmds = <<>>
    /\ api = [op |-> "init", arg |-> None, ret |-> "None"]
    /\ napi = 0
    /\ spc = "idle"

\* No DFU file has been opened.
NoDfuFile == [made |-> FALSE, raised |-> "None", data |-> <<>>, dev_info |-> <<>>]

FileIdle ==
    /\ readable = FALSE
    /\ file_data = <<>>
    /\ dfu_file = NoDfuFile
    /\ fpc = "idle"

\* No worker has been started.
WorkerIdle ==
    /\ bnum = 0
    /\ retries = 0
    /\ flash_req = <<>>
    /\ flash_rsp = RspNone
    /\ txcount = <<>>
    /\ resets = 0
    /\ queue = <<>>
    /\ fexc = "None"
    /\ status = None
    /\ dlog = <<>>
    /\ fwpc = "idle"

\* No flash run has been started.
SupIdle ==
    /\ dfus_selected = <<>>
    /\ batch = <<>>
    /\ nstarted = 0
    /\ njoined = 0
    /\ joinee = "new"
    /\ alive = 0
    /\ leaving = 0
    /\ dead = 0
    /\ qsize = 0
    /\ nresults = 0
    /\ flashed = <<>>
    /\ ppc = "idle"

FwuIdle == FileIdle /\ WorkerIdle /\ SupIdle

\* wait_for has not been called.
WaitIdle ==
    /\ wf_value = {}
    /\ wf_inverse = FALSE
    /\ wf_polls = 0
    /\ wf_rset = {}
    /\ wf_pc = "idle"

\* No octet has been given to a header of its own.
HdrIdle ==
    /\ hstream = <<>>
    /\ hobj = [bytes |-> <<>>, mgc |-> <<>>, fmt |-> "None", ust |-> FALSE]
    /\ hfed = <<>>
    /\ hrets = <<>>

\* No script of attempt outcomes is being played.
EqIdle ==
    /\ eq_req = None
    /\ eq_outs = <<>>
    /\ eq_poll = [pc |-> "idle", tx |-> 0, cmd_out |-> <<>>, exc |-> "None"]
    /\ eq_th = [pc |-> "idle", tx |-> 0, cmd_out |-> <<>>, exc |-> "None"]

UnitIdle == WaitIdle /\ HdrIdle /\ EqIdle

CallerInit ==
    /\ write_queue = <<>>
    /\ txt_cmd = ""
    /\ kbi_req = RspNone
    /\ cmd_out = <<>>
    /\ exc = "None"
    /\ got = <<>>
    /\ ends = <<>>
    /\ writes = 0
    /\ calls = 0
    /\ pc = "idle"

ReaderInit ==
    /\ rdata = <<>>
    /\ decoded = DecoderInit
    /\ size = 0
    /\ rsp = RspNone
    /\ read_queue = <<>>
    /\ logs = <<>>
    /\ rpc = "loop"

\* Where the for loop over data goes next.
NextByte(data) == IF data = <<>> THEN "loop" ELSE "bytes"

\* The record of the calls made on the port: the last two are kept.
Push(o, who, call) ==
    IF Len(o) < 2 THEN Append(o, <<who, call>>) ELSE <<o[2], <<who, call>>>>

\* _reader line 328: while self.run
RdLoop ==
    /\ rpc = "loop"
    /\ rpc' = IF run THEN "read" ELSE "exit"
    /\ UNCHANGED <<rdata, decoded, size, rsp, read_queue, logs, portVars>>
    /\ UNCHANGED <<cobsVars, kbiVars, callerVars, thVars, snifVars, fwuVars, unitVars>>

\* _reader line 329, nothing arrived within the port's timeout: the read
\* returns no octets, the for loop has nothing to do.
RdReadNone ==
    /\ rpc = "read"
    /\ rx = <<>>
    /\ rpc' = "loop"
    /\ ops' = Push(ops, "reader", "read")
    /\ UNCHANGED <<rdata, decoded, size, rsp, read_queue, logs, portVars>>
    /\ UNCHANGED <<wpc, closed, mode, outstanding, arrived>>
    /\ UNCHANGED <<cobsVars, kbiVars, callerVars, snifVars, fwuVars, unitVars>>

\* data = self.port.read(self.port.inWaiting() or 1): the octets that were
\* waiting when inWaiting was called, a non-empty prefix of those waiting now.
RdRead ==
    /\ rpc = "read"
    /\ rx # <<>>
    /\ \E n \in 1..Len(rx) :
        /\ rdata' = Take(rx, n)
        /\ rx' = Drop(rx, n)
    /\ rpc' = "bytes"
    /\ ops' = Push(ops, "reader", "read")
    /\ UNCHANGED <<decoded, size, rsp, read_queue, logs, inbox, sent, run>>
    /\ UNCHANGED <<wpc, closed, mode, outstanding, arrived>>
    /\ UNCHANGED <<cobsVars, kbiVars, callerVars, snifVars, fwuVars, unitVars>>

\* size = decoded.decode(byte)
RdDecode ==
    /\ rpc = "bytes"
    /\ rdata # <<>>
    /\ LET r == decode(decoded, Head(rdata)) IN
        /\ decoded' = r.d
        /\ size' = r.ret
        /\ rpc' = IF r.ret # 0 THEN "deliver" ELSE NextByte(Tail(rdata))
    /\ rdata' = Tail(rdata)
    /\ UNCHANGED <<rsp, read_queue, logs, portVars>>
    /\ UNCHANGED <<cobsVars, kbiVars, callerVars, thVars, snifVars, fwuVars, unitVars>>

\* _reader lines 334-347: decode returned a non-zero size.  The text of a
\* notification is built before it is printed (line 341), and an exception
\* from to_text leaves _reader: the thread is dead.
RdDeliver ==
    /\ rpc = "deliver"
    /\ \E kbi_rsp \in {KBIResponse(dec_get_data(decoded), size)} :
       \E raises \in {/\ is_valid(kbi_rsp) /\ is_notification(kbi_rsp)
                      /\ to_text(kbi_rsp).exc # "None"} :
        /\ rsp' = kbi_rsp
        /\ IF is_valid(kbi_rsp)
           THEN IF is_notification(kbi_rsp)
                THEN /\ logs' = IF raises THEN logs
                                 ELSE Append(logs, get_data(kbi_rsp))
                     /\ UNCHANGED read_queue
                ELSE /\ read_queue' = Append(read_queue, kbi_rsp)
                     /\ UNCHANGED logs
           ELSE /\ read_queue' = Append(read_queue, RspNone)
                /\ UNCHANGED logs
        /\ decoded' = IF raises THEN decoded ELSE DecoderInit
        /\ rpc' = IF raises THEN "dead" ELSE NextByte(rdata)
    /\ UNCHANGED <<rdata, size, portVars>>
    /\ UNCHANGED <<cobsVars, kbiVars, callerVars, thVars, snifVars, fwuVars, unitVars>>

(***************************************************************************)
(* The reader alone, the device sending any octets, one at a time.         *)
(***************************************************************************)
\* delimiter, a data code and a data octet, the reserved codes, zero runs
\* of 4 and 6, the two-zeros code, the error code
StreamOctets == {0, 2, 65, 209, 210, 212, 214, 224, 255}

DevSend ==
    /\ sent < MaxStream
    /\ rx = <<>> /\ rdata = <<>> /\ rpc = "read"
    /\ \E b \in StreamOctets : rx' = <<b>>
    /\ sent' = sent + 1
    /\ UNCHANGED <<inbox, run, readerVars>>
    /\ UNCHANGED <<cobsVars, kbiVars, callerVars, thVars, snifVars, fwuVars, unitVars>>

(***************************************************************************)
(* The device: it answers each request frame written to the port, in       *)
(* order, with one of a few octet streams, or with nothing.                *)
(***************************************************************************)
\* The octets a frame travels as: delimiter, then its COBS encoding.
OnWire(frame) == enc_get_data(encode(EncoderInit, frame))

\* A response frame of the given type and code.
RspFrame(ctype, ccode, cpload) == get_data(KBICommand("", ctype, ccode, cpload))

\* The frame with its checksum octet damaged.
BadXor(frame) == [frame EXCEPT ![5] = BitXor(@, 1)]

Replies(request) ==
    LET code == request[4]
        ok == OnWire(RspFrame(BitOr(CT_RSC, RC_OK), code, <<>>))
        value == OnWire(RspFrame(BitOr(CT_RSC, RC_VALUE), code, <<65>>))
    IN  { <<>>,                                        \* no answer at all
          ok,                                          \* empty OK
          value,                                       \* a value
          OnWire(RspFrame(BitOr(CT_RSC, RC_VALUE), 75, <<65>>)),
                                                       \* another opcode
          OnWire(BadXor(RspFrame(BitOr(CT_RSC, RC_OK), code, <<>>))),
                                                       \* damaged checksum
          <<0, 255>> }                                 \* damaged code octet

DevReply ==
    /\ inbox # <<>>
    /\ \E reply \in Replies(Head(inbox)) : rx' = rx \o reply
    /\ inbox' = Tail(inbox)
    /\ UNCHANGED <<sent, run, readerVars, callerVars>>
    /\ UNCHANGED <<cobsVars, kbiVars, thVars, snifVars, fwuVars, unitVars>>

\* Noise on the line: a delimiter and an octet that is no COBS code reach
\* the host although no request asked for them.
DevNoise ==
    /\ sent < MaxNoise
    /\ rx' = rx \o <<0, 255>>
    /\ sent' = sent + 1
    /\ UNCHANGED <<inbox, run, readerVars, callerVars>>
    /\ UNCHANGED <<cobsVars, kbiVars, thVars, snifVars, fwuVars, unitVars>>

\* Frames a device sends: responses, notifications with the payload their
\* text needs and with a shorter one, and a frame damaged on the line.
Frames ==
    { RspFrame(BitOr(CT_RSC, RC_OK), 74, <<>>),
      RspFrame(BitOr(CT_RSC, RC_VALUE), 74, <<65>>),
      RspFrame(BitOr(CT_NTF, 7), 0, <<65>>),
      RspFrame(BitOr(CT_NTF, NC_UDP), 0, <<0, 80, 0>>),
      RspFrame(BitOr(CT_NTF, NC_UDP), 0, <<>>),
      BadXor(RspFrame(BitOr(CT_RSC, RC_OK), 74, <<>>)) }

\* The device puts a frame on the line on its own.
DevFrame ==
    /\ Len(arrived) < MaxFrames
    /\ \E f \in Frames :
        /\ rx' = rx \o OnWire(f)
        /\ arrived' = Append(arrived, f)
    /\ UNCHANGED <<inbox, sent, run, readerVars, callerVars>>
    /\ UNCHANGED <<wpc, closed, mode, ops, outstanding>>
    /\ UNCHANGED <<cobsVars, kbiVars, snifVars, fwuVars, unitVars>>

(***************************************************************************)
(* KiSerial.ksh_cmd and kbi_cmd in KBI mode (the polling transport).       *)
(***************************************************************************)
\* The device facing the polling transport.  The host reads the port only
\* in kbi_cmd's loop, and flush_buffer empties the port before every such
\* loop: octets that arrive at any other time are never read, so an answer
\* given then is the same as no answer, which Replies holds (<<>>).
DevReplyPolled ==
    /\ pc = "recv"
    /\ DevReply

CmdTexts == {"clear", "show swver", "bogus"}

\* How a kbi_cmd ended, from the size its read loop left and the validity
\* of the response built from it.
HowEnded(sz, valid) ==
    IF sz = -1 THEN "cobs error"
    ELSE IF sz = -2 THEN "read timeout"
    ELSE IF valid THEN "valid" ELSE "invalid frame"

\* ksh_cmd lines 209-225: a new call.
PollBegin ==
    /\ pc \in {"idle", "done", "raised"}
    /\ calls < MaxCalls
    /\ \E txt \in CmdTexts :
        /\ txt_cmd' = txt
        /\ kbi_req' = KBICommand(txt, None, None, <<>>)
        /\ pc' = IF is_valid(kbi_req') THEN "send" ELSE "done"
    /\ cmd_out' = <<Line("Syntax error")>>
    /\ exc' = "None"
    /\ got' = <<>>
    /\ ends' = <<>>
    /\ writes' = 0
    /\ calls' = calls + 1
    /\ UNCHANGED <<write_queue, portVars, readerVars>>
    /\ UNCHANGED <<cobsVars, kbiVars, thVars, snifVars, fwuVars, unitVars>>

\* kbi_cmd lines 150-159: encode, flush_buffer, write, a fresh Decoder.
PollSend ==
    /\ pc = "send"
    /\ rx' = <<>>
    /\ inbox' = Append(inbox, get_data(kbi_req))
    /\ writes' = writes + 1
    /\ decoded' = DecoderInit
    /\ size' = 0
    /\ pc' = "recv"
    /\ ops' = Push(Push(ops, "caller", "flush"), "caller", "write")
    /\ outstanding' = outstanding + 1
    /\ UNCHANGED <<sent, run, rsp, rdata, read_queue, logs, rpc>>
    /\ UNCHANGED <<write_queue, txt_cmd, kbi_req, cmd_out, exc, got, ends, calls>>
    /\ UNCHANGED <<wpc, closed, mode, arrived>>
    /\ UNCHANGED <<cobsVars, kbiVars, snifVars, fwuVars, unitVars>>

\* kbi_cmd lines 160-168, an octet was waiting: size = decoded.decode(byte[0])
PollRead ==
    /\ pc = "recv"
    /\ rx # <<>>
    /\ LET r == decode(decoded, Head(rx)) IN
        /\ decoded' = r.d
        /\ size' = r.ret
        /\ pc' = IF r.ret = 0 THEN "recv" ELSE "check"
    /\ rx' = Tail(rx)
    /\ UNCHANGED <<inbox, sent, run, rsp, rdata, read_queue, logs, rpc>>
    /\ UNCHANGED <<write_queue, txt_cmd, kbi_req, cmd_out, exc, got, ends, writes, calls>>
    /\ ops' = Push(ops, "caller", "read")
    /\ UNCHANGED <<wpc, closed, mode, outstanding, arrived>>
    /\ UNCHANGED <<cobsVars, kbiVars, snifVars, fwuVars, unitVars>>

\* kbi_cmd lines 161-164, port.read(1) returned nothing: size = -2
PollTimeout ==
    /\ pc = "recv"
    /\ rx = <<>>
    /\ size' = -2
    /\ pc' = "check"
    /\ UNCHANGED <<portVars, decoded, rsp, rdata, read_queue, logs, rpc>>
    /\ UNCHANGED <<write_queue, txt_cmd, kbi_req, cmd_out, exc, got, ends, writes, calls>>
    /\ ops' = Push(ops, "caller", "read")
    /\ UNCHANGED <<wpc, closed, mode, outstanding, arrived>>
    /\ UNCHANGED <<cobsVars, kbiVars, snifVars, fwuVars, unitVars>>

\* ksh_cmd lines 240-241: port.read raised serial.SerialException.
PollSerialError ==
    /\ pc = "recv"
    /\ cmd_out' = <<Line("Serial problem")>>
    /\ pc' = "done"
    /\ decoded' = DecoderInit
    /\ size' = 0
    /\ UNCHANGED <<portVars, rsp, rdata, read_queue, logs, rpc>>
    /\ UNCHANGED <<write_queue, txt_cmd, kbi_req, exc, got, ends, writes, calls>>
    /\ ops' = Push(ops, "caller", "read")
    /\ outstanding' = 0
    /\ UNCHANGED <<wpc, closed, mode, arrived>>
    /\ UNCHANGED <<cobsVars, kbiVars, snifVars, fwuVars, unitVars>>

\* ksh_cmd lines 232-235 for the response r that the last attempt returned:
\* the caller's cmd_out and exc afterwards.
PollDispatch(r, request) ==
    IF r.isNone
    THEN [cmd_out |-> <<Line("Read timeout")>>, exc |-> "None"]
    ELSE IF get_code(r) = get_code(request)
    THEN [cmd_out |-> to_text(r).lines, exc |-> to_text(r).exc]
    ELSE [cmd_out |-> <<Line("Response code not matching")>>, exc |-> "None"]

\* PollCheck with the retry taken after every failed attempt, not only
\* after the first.
PollCheckRetryAlways ==
    /\ pc = "check"
    /\ LET kbi_rsp == KBIResponse(dec_get_data(decoded), size)
           ret == IF is_valid(kbi_rsp) THEN kbi_rsp ELSE RspNone
           fin == PollDispatch(ret, kbi_req)
       IN  /\ got' = Append(got, ret)
           /\ ends' = Append(ends, HowEnded(size, is_valid(kbi_rsp)))
           /\ IF ret.isNone
              THEN /\ cmd_out' = <<Line("Response code not matching")>>
                   /\ pc' = "send"
                   /\ UNCHANGED exc
              ELSE /\ cmd_out' = fin.cmd_out
                   /\ exc' = fin.exc
                   /\ pc' = IF fin.exc = "None" THEN "done" ELSE "raised"
    /\ decoded' = DecoderInit
    /\ size' = 0
    /\ UNCHANGED <<portVars, rsp, rdata, read_queue, logs, rpc>>
    /\ UNCHANGED <<write_queue, txt_cmd, kbi_req, writes, calls>>
    /\ outstanding' = 0
    /\ UNCHANGED <<wpc, closed, mode, ops, arrived>>
    /\ UNCHANGED <<cobsVars, kbiVars, snifVars, fwuVars, unitVars>>

\* kbi_cmd lines 169-180, then ksh_cmd lines 226-235.  kbi_cmd returns, and
\* its locals decoded and size are gone.
PollCheck ==
    /\ pc = "check"
    /\ LET kbi_rsp == KBIResponse(dec_get_data(decoded), size)
           ret == IF is_valid(kbi_rsp) THEN kbi_rsp ELSE RspNone
           fin == PollDispatch(ret, kbi_req)
       IN  /\ got' = Append(got, ret)
           /\ ends' = Append(ends, HowEnded(size, is_valid(kbi_rsp)))
           /\ IF Len(got) = 0 /\ ret.isNone
              THEN /\ cmd_out' = <<Line("Response code not matching")>>
                   /\ pc' = "send"
                   /\ UNCHANGED exc
              ELSE /\ cmd_out' = fin.cmd_out
                   /\ exc' = fin.exc
                   /\ pc' = IF fin.exc = "None" THEN "done" ELSE "raised"
    /\ decoded' = DecoderInit
    /\ size' = 0
    /\ UNCHANGED <<portVars, rsp, rdata, read_queue, logs, rpc>>
    /\ UNCHANGED <<write_queue, txt_cmd, kbi_req, writes, calls>>
    /\ outstanding' = 0
    /\ UNCHANGED <<wpc, closed, mode, ops, arrived>>
    /\ UNCHANGED <<cobsVars, kbiVars, snifVars, fwuVars, unitVars>>

(***************************************************************************)
(* KiSerial.ksh_cmd and usb_cmd in shell mode (the polling transport).     *)
(***************************************************************************)
\* 'kinos@local:~$ ' in latin_1
KSHPROMPT == <<107, 105, 110, 111, 115, 64, 108, 111, 99, 97, 108, 58, 126, 36, 32>>

\* p in s, for byte strings
Contains(s, p) ==
    \E i \in 0..(Len(s) - Len(p)) : SubSeq(s, i + 1, i + Len(p)) = p

\* s.replace(p, '')
RECURSIVE Remove(_, _)
Remove(s, p) ==
    IF Len(s) < Len(p) THEN s
    ELSE IF Take(s, Len(p)) = p THEN Remove(Drop(s, Len(p)), p)
    ELSE <<Head(s)>> \o Remove(Tail(s), p)

\* s.splitlines(), cur the line being collected: lines end at \r\n, \n
\* or \r, and no empty last line is made.
RECURSIVE SplitFrom(_, _)
SplitFrom(s, cur) ==
    IF s = <<>> THEN (IF cur = <<>> THEN <<>> ELSE <<cur>>)
    ELSE IF Len(s) > 1 /\ s[1] = 13 /\ s[2] = 10
         THEN <<cur>> \o SplitFrom(Drop(s, 2), <<>>)
    ELSE IF s[1] \in {10, 13} THEN <<cur>> \o SplitFrom(Tail(s), <<>>)
    ELSE SplitFrom(Tail(s), Append(cur, s[1]))

splitlines(s) == SplitFrom(s, <<>>)

\* usb_cmd line 201: line and line[0] == '#'
IsLogLine(line) == line # <<>> /\ line[1] = 35

\* What the shell of the device answers to a command: nothing; a line and
\* the prompt; a log line, a line and the prompt; a line without prompt.
ShellReplies ==
    { <<>>,
      <<65, 13, 10>> \o KSHPROMPT,
      <<35, 66, 13, 10, 65, 13, 10>> \o KSHPROMPT,
      <<65, 13, 10>> }

DevShell ==
    /\ inbox # <<>>
    /\ \E reply \in ShellReplies : rx' = rx \o reply
    /\ inbox' = Tail(inbox)
    /\ UNCHANGED <<sent, run, readerVars, callerVars>>
    /\ UNCHANGED <<cobsVars, kbiVars, thVars, snifVars, fwuVars, unitVars>>

\* The device prints a log line on its own.
DevLog ==
    /\ sent < MaxNoise
    /\ rx' = rx \o <<35, 66, 13, 10>>
    /\ sent' = sent + 1
    /\ UNCHANGED <<inbox, run, readerVars, callerVars>>
    /\ UNCHANGED <<cobsVars, kbiVars, thVars, snifVars, fwuVars, unitVars>>

\* ksh_cmd lines 209-221 and 236-238 with self.mode KSH_MODE: a new call.
UsbBegin ==
    /\ mode = "KSH"
    /\ pc \in {"idle", "done", "raised"}
    /\ calls < MaxShellCalls
    /\ \E txt \in CmdTexts : txt_cmd' = txt
    /\ cmd_out' = <<>>
    /\ exc' = "None"
    /\ writes' = 0
    /\ calls' = calls + 1
    /\ pc' = "usb_send"
    /\ UNCHANGED <<write_queue, kbi_req, got, ends, portVars, readerVars>>
    /\ UNCHANGED <<cobsVars, kbiVars, thVars, snifVars, fwuVars, unitVars>>

\* usb_cmd lines 184-191: cmd_out = bytearray(), port.write(cmd + '\r'),
\* and the return of a call made with no_response.
UsbSend ==
    /\ pc = "usb_send"
    /\ rdata' = <<>>
    /\ inbox' = Append(inbox, <<txt_cmd, 13>>)
    /\ writes' = writes + 1
    /\ ops' = Push(ops, "caller", "write")
    /\ \E no_response \in BOOLEAN :
        /\ pc' = IF no_response THEN "done" ELSE "usb_read"
        /\ outstanding' = IF no_response THEN 0 ELSE outstanding + 1
    /\ UNCHANGED <<rx, sent, run, decoded, size, rsp, read_queue, logs, rpc>>
    /\ UNCHANGED <<write_queue, txt_cmd, kbi_req, cmd_out, exc, got, ends, calls>>
    /\ UNCHANGED <<wpc, closed, mode, arrived>>
    /\ UNCHANGED <<cobsVars, kbiVars, snifVars, fwuVars, unitVars>>

\* usb_cmd lines 192-198, octets were waiting: char = port.read(1),
\* rest = port.read(in_waiting), cmd_out += char + rest
UsbRead ==
    /\ pc = "usb_read"
    /\ ~Contains(rdata, KSHPROMPT)
    /\ rx # <<>>
    /\ rdata' = rdata \o rx
    /\ rx' = <<>>
    /\ ops' = Push(ops, "caller", "read")
    /\ UNCHANGED <<inbox, sent, run, decoded, size, rsp, read_queue, logs, rpc>>
    /\ UNCHANGED <<callerVars>>
    /\ UNCHANGED <<wpc, closed, mode, outstanding, arrived>>
    /\ UNCHANGED <<cobsVars, kbiVars, snifVars, fwuVars, unitVars>>

\* usb_cmd lines 199-207: the prompt is dropped, the text split in lines,
\* lines that start with '#' go to self.logs, the others are returned.
UsbReturn ==
    LET lines == splitlines(Remove(rdata, KSHPROMPT)) IN
    /\ logs' = logs \o SelectSeq(lines, IsLogLine)
    /\ cmd_out' = SelectSeq(lines, LAMBDA l : ~IsLogLine(l))
    /\ outstanding' = 0
    /\ pc' = "done"
    /\ UNCHANGED <<inbox, sent, run, rdata, decoded, size, rsp, read_queue, rpc>>
    /\ UNCHANGED <<write_queue, txt_cmd, kbi_req, exc, got, ends, writes, calls>>
    /\ UNCHANGED <<cobsVars, kbiVars, snifVars, fwuVars, unitVars>>

\* usb_cmd line 192: the prompt is in cmd_out, the loop ends.
UsbDone ==
    /\ pc = "usb_read"
    /\ Contains(rdata, KSHPROMPT)
    /\ UsbReturn
    /\ UNCHANGED <<rx, wpc, closed, mode, ops, arrived>>

\* usb_cmd lines 193-196: port.read(1) returned nothing within the timeout.
UsbTimeout ==
    /\ pc = "usb_read"
    /\ ~Contains(rdata, KSHPROMPT)
    /\ rx = <<>>
    /\ UsbReturn
    /\ ops' = Push(ops, "caller", "read")
    /\ UNCHANGED <<rx, wpc, closed, mode, arrived>>

\* ksh_cmd lines 240-241: port.write or port.read raised
\* serial.SerialException.
UsbSerialError ==
    /\ pc \in {"usb_send", "usb_read"}
    /\ cmd_out' = <<Line("Serial problem")>>
    /\ pc' = "done"
    /\ outstanding' = 0
    /\ ops' = Push(ops, "caller", IF pc = "usb_send" THEN "write" ELSE "read")
    /\ UNCHANGED <<portVars, readerVars>>
    /\ UNCHANGED <<write_queue, txt_cmd, kbi_req, exc, got, ends, writes, calls>>
    /\ UNCHANGED <<wpc, closed, mode, arrived>>
    /\ UNCHANGED <<cobsVars, kbiVars, snifVars, fwuVars, unitVars>>

(***************************************************************************)
(* KiSerialTh in KBI mode (the concurrent transport): _writer and ksh_cmd. *)
(* start() has run: both threads are alive and both queues are empty.      *)
(***************************************************************************)
\* _writer line 369: while self.run (the sleep of line 370 follows).
WrLoop ==
    /\ wpc = "loop"
    /\ wpc' = IF run THEN "get" ELSE "exit"
    /\ UNCHANGED <<closed, mode, ops, outstanding, arrived>>
    /\ UNCHANGED <<portVars, readerVars, callerVars>>
    /\ UNCHANGED <<cobsVars, kbiVars, snifVars, fwuVars, unitVars>>

\* _writer lines 371-387: write_queue.get returned cmd.  None is the
\* sentinel close() puts: the thread returns.  Otherwise: encode,
\* flush_buffer, port.write.
WrSend ==
    /\ wpc = "get"
    /\ write_queue # <<>>
    /\ write_queue' = Tail(write_queue)
    /\ IF Head(write_queue).isNone
       THEN /\ wpc' = "exit"
            /\ UNCHANGED <<rx, inbox, writes, ops, outstanding>>
       ELSE /\ wpc' = "loop"
            /\ rx' = <<>>
            /\ inbox' = Append(inbox, get_data(Head(write_queue)))
            /\ writes' = writes + 1
            /\ ops' = Push(Push(ops, "writer", "flush"), "writer", "write")
            /\ outstanding' = outstanding + 1
    /\ UNCHANGED <<sent, run, readerVars>>
    /\ UNCHANGED <<txt_cmd, kbi_req, cmd_out, exc, got, ends, calls, pc>>
    /\ UNCHANGED <<closed, mode, arrived>>
    /\ UNCHANGED <<cobsVars, kbiVars, snifVars, fwuVars, unitVars>>

\* ksh_cmd writing the request itself, as kbi_cmd does (lines 154-155),
\* instead of queueing it for the writer
ThBeginDirect ==
    /\ pc \in {"idle", "done", "raised"}
    /\ calls < MaxCalls
    /\ \E txt \in CmdTexts :
        /\ txt_cmd' = txt
        /\ kbi_req' = KBICommand(txt, None, None, <<>>)
        /\ IF is_valid(kbi_req')
           THEN /\ rx' = <<>>
                /\ inbox' = Append(inbox, get_data(kbi_req'))
                /\ ops' = Push(Push(ops, "caller", "flush"), "caller", "write")
                /\ pc' = "get1"
           ELSE /\ UNCHANGED <<rx, inbox, ops>>
                /\ pc' = "done"
    /\ cmd_out' = <<Line("Syntax error")>>
    /\ exc' = "None"
    /\ got' = <<>>
    /\ writes' = 0
    /\ calls' = calls + 1
    /\ UNCHANGED <<write_queue, ends, sent, run, readerVars>>
    /\ UNCHANGED <<wpc, closed, mode, outstanding, arrived>>
    /\ UNCHANGED <<cobsVars, kbiVars, snifVars, fwuVars, unitVars>>

\* ksh_cmd lines 389-408: a new call.
ThBegin ==
    /\ pc \in {"idle", "done", "raised"}
    /\ calls < MaxCalls
    /\ \E txt \in CmdTexts :
        /\ txt_cmd' = txt
        /\ kbi_req' = KBICommand(txt, None, None, <<>>)
        /\ IF is_valid(kbi_req')
           THEN /\ write_queue' = Append(write_queue, kbi_req')
                /\ pc' = "get1"
           ELSE /\ UNCHANGED write_queue
                /\ pc' = "done"
    /\ cmd_out' = <<Line("Syntax error")>>
    /\ exc' = "None"
    /\ got' = <<>>
    /\ writes' = 0
    /\ calls' = calls + 1
    /\ UNCHANGED <<ends, portVars, readerVars>>
    /\ UNCHANGED <<cobsVars, kbiVars, thVars, snifVars, fwuVars, unitVars>>

\* ksh_cmd lines 409-417: the first read_queue.get returned kbi_rsp.
ThGet1 ==
    /\ pc = "get1"
    /\ read_queue # <<>>
    /\ LET kbi_rsp == Head(read_queue) IN
        /\ got' = Append(got, kbi_rsp)
        /\ IF kbi_rsp.isNone
           THEN /\ write_queue' = Append(write_queue, kbi_req)
                /\ cmd_out' = <<Line("Response code not matching")>>
                /\ pc' = "get2"
                /\ UNCHANGED exc
           ELSE IF get_code(kbi_rsp) = get_code(kbi_req)
           THEN /\ cmd_out' = to_text(kbi_rsp).lines
                /\ exc' = to_text(kbi_rsp).exc
                /\ pc' = IF to_text(kbi_rsp).exc = "None" THEN "done" ELSE "raised"
                /\ UNCHANGED write_queue
           ELSE /\ cmd_out' = <<Line("Response code not matching")>>
                /\ pc' = "done"
                /\ UNCHANGED <<exc, write_queue>>
    /\ read_queue' = Tail(read_queue)
    /\ UNCHANGED <<rdata, decoded, size, rsp, logs, rpc, portVars>>
    /\ UNCHANGED <<txt_cmd, kbi_req, ends, writes, calls>>
    /\ outstanding' = 0
    /\ UNCHANGED <<wpc, closed, mode, ops, arrived>>
    /\ UNCHANGED <<cobsVars, kbiVars, snifVars, fwuVars, unitVars>>

\* ksh_cmd line 415: the read_queue.get of the retry returned; nothing
\* looks at what it returned.
ThGet2 ==
    /\ pc = "get2"
    /\ read_queue # <<>>
    /\ got' = Append(got, Head(read_queue))
    /\ read_queue' = Tail(read_queue)
    /\ pc' = "done"
    /\ UNCHANGED <<rdata, decoded, size, rsp, logs, rpc, portVars>>
    /\ UNCHANGED <<write_queue, txt_cmd, kbi_req, cmd_out, exc, ends, writes, calls>>
    /\ outstanding' = 0
    /\ UNCHANGED <<wpc, closed, mode, ops, arrived>>
    /\ UNCHANGED <<cobsVars, kbiVars, snifVars, fwuVars, unitVars>>

\* ksh_cmd lines 427-428: a read_queue.get found the queue empty for 3 s.
\* The writer takes a queued request within its 0.2 s sleep, so by then
\* the request has been written.
ThTimeout ==
    /\ pc \in {"get1", "get2"}
    /\ read_queue = <<>>
    /\ write_queue = <<>>
    /\ cmd_out' = <<Line("Read timeout")>>
    /\ pc' = "done"
    /\ outstanding' = 0
    /\ UNCHANGED <<portVars, readerVars>>
    /\ UNCHANGED <<write_queue, txt_cmd, kbi_req, exc, got, ends, writes, calls>>
    /\ UNCHANGED <<wpc, closed, mode, ops, arrived>>
    /\ UNCHANGED <<cobsVars, kbiVars, snifVars, fwuVars, unitVars>>

(***************************************************************************)
(* KiSerialTh.close, called by the thread that calls ksh_cmd.              *)
(***************************************************************************)
\* close line 316: self.run = False
ClStop ==
    /\ pc \in {"idle", "done", "raised"}
    /\ run' = FALSE
    /\ pc' = "close_put"
    /\ UNCHANGED <<rx, inbox, sent, readerVars, thVars>>
    /\ UNCHANGED <<write_queue, txt_cmd, kbi_req, cmd_out, exc, got, ends, writes, calls>>
    /\ UNCHANGED <<cobsVars, kbiVars, snifVars, fwuVars, unitVars>>

\* close without line 317: nothing is put on write_queue
ClPutNothing ==
    /\ pc = "close_put"
    /\ pc' = "join_reader"
    /\ UNCHANGED <<portVars, readerVars, thVars>>
    /\ UNCHANGED <<write_queue, txt_cmd, kbi_req, cmd_out, exc, got, ends, writes, calls>>
    /\ UNCHANGED <<cobsVars, kbiVars, snifVars, fwuVars, unitVars>>

\* close line 317: self.write_queue.put(None)
ClPut ==
    /\ pc = "close_put"
    /\ write_queue' = Append(write_queue, RspNone)
    /\ pc' = "join_reader"
    /\ UNCHANGED <<portVars, readerVars, thVars>>
    /\ UNCHANGED <<txt_cmd, kbi_req, cmd_out, exc, got, ends, writes, calls>>
    /\ UNCHANGED <<cobsVars, kbiVars, snifVars, fwuVars, unitVars>>

\* close line 318: self.read_thread.join() returns
ClJoinReader ==
    /\ pc = "join_reader"
    /\ rpc \in {"exit", "dead"}
    /\ pc' = "join_writer"
    /\ UNCHANGED <<portVars, readerVars, thVars>>
    /\ UNCHANGED <<write_queue, txt_cmd, kbi_req, cmd_out, exc, got, ends, writes, calls>>
    /\ UNCHANGED <<cobsVars, kbiVars, snifVars, fwuVars, unitVars>>

\* close line 319: self.write_thread.join() returns
ClJoinWriter ==
    /\ pc = "join_writer"
    /\ wpc = "exit"
    /\ pc' = "close_port"
    /\ UNCHANGED <<portVars, readerVars, thVars>>
    /\ UNCHANGED <<write_queue, txt_cmd, kbi_req, cmd_out, exc, got, ends, writes, calls>>
    /\ UNCHANGED <<cobsVars, kbiVars, snifVars, fwuVars, unitVars>>

\* close line 320: self.port.close()
ClClose ==
    /\ pc = "close_port"
    /\ closed' = TRUE
    /\ ops' = Push(ops, "caller", "close")
    /\ pc' = "closed"
    /\ UNCHANGED <<portVars, readerVars>>
    /\ UNCHANGED <<write_queue, txt_cmd, kbi_req, cmd_out, exc, got, ends, writes, calls>>
    /\ UNCHANGED <<wpc, mode, outstanding, arrived>>
    /\ UNCHANGED <<cobsVars, kbiVars, snifVars, fwuVars, unitVars>>

(***************************************************************************)
(* Specifications.                                                         *)
(***************************************************************************)
InitCobs == CobsInit /\ KbiIdle /\ PortIdle /\ ReaderInit /\ CallerInit /\ ThIdle /\ SnifIdle /\ FwuIdle /\ UnitIdle
CobsNext == Encode \/ Decode
SpecCobs == InitCobs /\ [][CobsNext]_vars

InitKbi == CobsIdle /\ KbiInit /\ PortIdle /\ ReaderInit /\ CallerInit /\ ThIdle /\ SnifIdle /\ FwuIdle /\ UnitIdle
KbiNext == Build \/ Parse
SpecKbi == InitKbi /\ [][KbiNext]_vars

InitText ==
    /\ CobsIdle /\ PortIdle /\ ReaderInit /\ CallerInit /\ ThIdle /\ SnifIdle
    /\ FwuIdle /\ UnitIdle
    /\ kreq = <<0, 0, <<>>>> /\ kcmd = RspNone /\ krsp = RspNone /\ kpc = "idle"
    /\ TextInit
TextNext == TextToKbi
SpecText == InitText /\ [][TextNext]_vars

InitStream == CobsIdle /\ KbiIdle /\ PortIdle /\ ReaderInit /\ CallerInit /\ ThIdle /\ SnifIdle /\ FwuIdle /\ UnitIdle
StreamNext == DevSend \/ RdLoop \/ RdRead \/ RdReadNone \/ RdDecode \/ RdDeliver
SpecStream == InitStream /\ [][StreamNext]_vars

InitRd == CobsIdle /\ KbiIdle /\ PortIdle /\ ReaderInit /\ CallerInit /\ ThIdle /\ SnifIdle /\ FwuIdle /\ UnitIdle
RdNext == DevFrame \/ RdLoop \/ RdRead \/ RdReadNone \/ RdDecode \/ RdDeliver
SpecRd == InitRd /\ [][RdNext]_vars

InitPoll == CobsIdle /\ KbiIdle /\ PortIdle /\ ReaderInit /\ CallerInit /\ ThIdle /\ SnifIdle /\ FwuIdle /\ UnitIdle
PollNext ==
    \/ PollBegin \/ PollSend \/ PollRead \/ PollTimeout \/ PollSerialError
    \/ PollCheck \/ DevReplyPolled
SpecPoll == InitPoll /\ [][PollNext]_vars

InitTh == CobsIdle /\ KbiIdle /\ PortIdle /\ ReaderInit /\ CallerInit /\ ThIdle /\ SnifIdle /\ FwuIdle /\ UnitIdle
Reader == RdLoop \/ RdRead \/ RdReadNone \/ RdDecode \/ RdDeliver
Writer == WrLoop \/ WrSend
\* close() once it has been called
Closing == ClPut \/ ClJoinReader \/ ClJoinWriter \/ ClClose
ThNext ==
    \/ ThBegin \/ ThGet1 \/ ThGet2 \/ ThTimeout
    \/ WrLoop \/ WrSend
    \/ RdLoop \/ RdRead \/ RdReadNone \/ RdDecode \/ RdDeliver
    \/ ClStop \/ ClPut \/ ClJoinReader \/ ClJoinWriter \/ ClClose
    \/ DevReply \/ DevNoise
SpecTh == InitTh /\ [][ThNext]_vars

\* Threads that can run do run: port.read returns within the port timeout
\* (RdRead, RdReadNone), queue.get returns once an item is queued, and
\* the thread inside close() goes on.
\* The same on a quiet line (no DevNoise).
CloseNext ==
    \/ ThBegin \/ ThGet1 \/ ThGet2 \/ ThTimeout
    \/ WrLoop \/ WrSend
    \/ RdLoop \/ RdRead \/ RdReadNone \/ RdDecode \/ RdDeliver
    \/ ClStop \/ ClPut \/ ClJoinReader \/ ClJoinWriter \/ ClClose
    \/ DevReply
SpecThLive ==
    /\ InitTh /\ [][CloseNext]_vars
    /\ WF_vars(Reader) /\ WF_vars(Writer) /\ WF_vars(Closing)

\* The polling transport in shell mode: set_mode (line 280) has set
\* self.mode to KSH_MODE.
InitUsb ==
    /\ CobsIdle /\ KbiIdle /\ PortIdle /\ ReaderInit /\ CallerInit /\ SnifIdle
    /\ FwuIdle /\ UnitIdle
    /\ wpc = "loop" /\ closed = FALSE /\ mode = "KSH"
    /\ ops = <<>> /\ outstanding = 0 /\ arrived = <<>>
UsbNext ==
    \/ UsbBegin \/ UsbSend \/ UsbRead \/ UsbDone \/ UsbTimeout
    \/ UsbSerialError \/ DevShell \/ DevLog
SpecUsb == InitUsb /\ [][UsbNext]_vars

(***************************************************************************)
(* KiraleFrameHeader (kisniffer.py).  A magic number is kept as its four   *)
(* octets in stream order (big-endian), which is what unpack_from('>L')    *)
(* compares.                                                                *)
(***************************************************************************)
REPRS ==
    << [mgc |-> <<193, 31, 254, 114>>, fmt |-> "HL"],
       [mgc |-> <<83, 78, 73, 70>>, fmt |-> "HQ"],
       [mgc |-> <<184, 151, 140, 151>>, fmt |-> "HQ"],
       [mgc |-> <<192, 151, 140, 151>>, fmt |-> "HQ"] >>

\* struct.Struct(fmt).size
StructSize(fmt) == IF fmt = "HL" THEN 6 ELSE 10

\* big-endian value of a byte string
RECURSIVE BE(_)
BE(s) == IF s = <<>> THEN 0 ELSE BE(Take(s, Len(s) - 1)) * 256 + s[Len(s)]

\* KiraleFrameHeader.__init__; the None of mgc is <<>> and the None of fmt
\* is "None" here
HeaderInit == [bytes |-> <<>>, mgc |-> <<>>, fmt |-> "None", ust |-> FALSE]

NoFrame == [frame_len |-> None, tstamp |-> None, rssi |-> None, lqi |-> None]

\* A slip: the octets held are dropped when they are no magic number.
HdrScanNoRoll(h, bytes) ==
    IF \E i \in 1..Len(REPRS) : REPRS[i].mgc = bytes
    THEN LET i == CHOOSE j \in 1..Len(REPRS) : REPRS[j].mgc = bytes
         IN  [h |-> [h EXCEPT !.bytes = bytes, !.mgc = REPRS[i].mgc,
                                !.fmt = REPRS[i].fmt],
              ret |-> NoFrame]
    ELSE [h |-> [h EXCEPT !.bytes = <<>>], ret |-> NoFrame]

\* add_byte lines 57-64: four octets are held and no format is locked
HdrScan(h, bytes) ==
    IF \E i \in 1..Len(REPRS) : REPRS[i].mgc = bytes
    THEN LET i == CHOOSE j \in 1..Len(REPRS) : REPRS[j].mgc = bytes
         IN  [h |-> [h EXCEPT !.bytes = bytes, !.mgc = REPRS[i].mgc,
                                !.fmt = REPRS[i].fmt],
              ret |-> NoFrame]
    ELSE [h |-> [h EXCEPT !.bytes = Tail(bytes)], ret |-> NoFrame]

\* add_byte lines 65-79: the header is complete.  Of the 8-octet field the
\* top octet is rssi (>> 56), the next lqi (>> 48), the low six the time.
HdrUnpack(h, bytes) ==
    LET field == Drop(bytes, 6)
        wide == h.fmt = "HQ"
        new == h.mgc \in {REPRS[3].mgc, REPRS[4].mgc}
    IN  [h |-> [h EXCEPT !.bytes = <<>>, !.fmt = "None",
                         !.ust = IF h.mgc = REPRS[4].mgc THEN TRUE ELSE @],
         ret |-> [frame_len |-> BE(SubSeq(bytes, 5, 6)),
                  tstamp |-> IF wide THEN BE(Drop(field, 2)) ELSE BE(field),
                  rssi |-> IF new THEN field[1] ELSE 0,
                  lqi |-> IF new THEN field[2] ELSE 0]]

\* KiraleFrameHeader.add_byte
add_byte(h, byte) ==
    LET bytes == Append(h.bytes, byte) IN
    IF Len(bytes) = 4 /\ h.fmt = "None" THEN HdrScan(h, bytes)
    ELSE IF h.fmt # "None" /\ Len(bytes) = StructSize(h.fmt) + 4
         THEN HdrUnpack(h, bytes)
    ELSE [h |-> [h EXCEPT !.bytes = bytes], ret |-> NoFrame]

(***************************************************************************)
(* The sniffer device: what it puts on the line for a captured frame.      *)
(***************************************************************************)
\* the time field of a header of magic REPRS[i], raw time ts below 256
TimeField(i, ts, rssi, lqi) ==
    IF i = 1 THEN <<0, 0, 0, ts>>
    ELSE IF i = 2 THEN <<0, 0, 0, 0, 0, 0, 0, ts>>
    ELSE <<rssi, lqi, 0, 0, 0, 0, 0, ts>>

\* header and PSDU of a frame, as octets
SnifOctets(f) ==
    REPRS[f.i].mgc \o <<0, Len(f.psdu)>> \o TimeField(f.i, f.ts, f.rssi, f.lqi)
        \o f.psdu

\* A captured frame: the header variant, the raw time, the PSDU of one or
\* two octets, and whether all of it reaches the host before the read of
\* the PSDU times out (whole) or the second octet is lost.
SnifFrames(variants) ==
    [i : variants, ts : {3}, rssi : {200}, lqi : {7},
     psdu : {<<1>>, <<1, 2>>}, whole : {TRUE}]
      \cup [i : variants, ts : {3}, rssi : {200}, lqi : {7},
            psdu : {<<1, 2>>}, whole : {FALSE}]

\* The device sends a frame while the line is idle.
DevSniffOf(variants) ==
    /\ cmds # <<>> /\ cmds[Len(cmds)] = <<"ifup">>
    /\ rx = <<>>
    /\ Len(arrived) < MaxFrames
    /\ \E f \in SnifFrames(variants) :
        /\ rx' = IF f.whole THEN SnifOctets(f)
                 ELSE Take(SnifOctets(f), Len(SnifOctets(f)) - 1)
        /\ arrived' = Append(arrived, f)
    /\ UNCHANGED <<inbox, sent, run, readerVars, callerVars>>
    /\ UNCHANGED <<wpc, closed, mode, ops, outstanding>>
    /\ UNCHANGED <<cobsVars, kbiVars, snifVars, fwuVars, unitVars>>

DevSniff == DevSniffOf(1..4)

(***************************************************************************)
(* KiSniffer: the calls start, stop, set_channel and config_file_handler,  *)
(* made by one thread, and the capture threads (receive).                  *)
(***************************************************************************)
Channels == {10, 11, 26, 27}

\* f applied to every element of s
Map(s, f(_)) == [i \in 1..Len(s) |-> f(s[i])]

\* the number x is an element of the sequence s
Has(s, x) == \E i \in 1..Len(s) : s[i] = x

\* The calls of one operation on each sink of hs, in the order of hs.
CallAll(log, hs, what) ==
    [h \in 1..Len(log) |->
        log[h] \o SelectSeq(Map(hs, LAMBDA x : IF x = h THEN what ELSE <<>>),
                            LAMBDA e : e # <<>>)]

\* start lines 154-155: the clock at the n-th call on the sniffer
Now(n) == 1000 * n

\* the part of the state no call on the sniffer touches
SnifFrame ==
    /\ UNCHANGED <<inbox, sent, run, readerVars, callerVars>>
    /\ UNCHANGED <<wpc, closed, mode, ops, outstanding, arrived>>
    /\ UNCHANGED <<cobsVars, kbiVars, fwuVars, unitVars>>

\* config_file_handler: a FileHandler is made and appended
ConfigHandler ==
    /\ spc = "idle"
    /\ Len(sinks) < MaxSinks
    /\ sinks' = Append(sinks, <<>>)
    /\ handlers' = Append(handlers, Len(sinks) + 1)
    /\ UNCHANGED <<channel, is_running, thread, threads, init_ts, usec, cmds,
                   api, napi, spc, rx>>
    /\ SnifFrame

\* set_channel without the test of line 207
SetToAnyTime(running, chan, c) ==
    IF c \in 11..26
    THEN [channel |-> c, cmds |-> <<<<"config channel", c>>>>]
    ELSE [channel |-> chan, cmds |-> <<>>]

\* set_channel lines 207-210, on the values of self it reads
SetTo(running, chan, c) ==
    IF ~running /\ c \in 11..26
    THEN [channel |-> c, cmds |-> <<<<"config channel", c>>>>]
    ELSE [channel |-> chan, cmds |-> <<>>]

\* set_channel(c), called from outside
SetChannel(c) ==
    /\ spc = "idle"
    /\ napi < MaxOps
    /\ napi' = napi + 1
    /\ channel' = SetTo(is_running, channel, c).channel
    /\ cmds' = cmds \o SetTo(is_running, channel, c).cmds
    /\ api' = [op |-> "set_channel", arg |-> c, ret |-> "None"]
    /\ UNCHANGED <<is_running, thread, threads, handlers, sinks, init_ts,
                   usec, spc, rx>>
    /\ SnifFrame

\* start(c): the time is taken, every sink is started, set_channel(c),
\* and with a channel that is not 0 the capture thread is started.
Start(c) ==
    /\ spc = "idle"
    /\ napi < MaxOps
    /\ napi' = napi + 1
    /\ init_ts' = Now(napi')
    /\ sinks' = CallAll(sinks, handlers, <<"start">>)
    /\ channel' = SetTo(is_running, channel, c).channel
    /\ IF channel' # 0
       THEN /\ is_running' = TRUE
            /\ cmds' = cmds \o SetTo(is_running, channel, c).cmds \o <<<<"ifup">>>>
            /\ threads' = Append(threads, [pc |-> "loop", header |-> HeaderInit,
                                          frame |-> <<>>])
            /\ thread' = Len(threads) + 1
            /\ api' = [op |-> "start", arg |-> c, ret |-> "True"]
       ELSE /\ cmds' = cmds \o SetTo(is_running, channel, c).cmds
            /\ api' = [op |-> "start", arg |-> c, ret |-> "False"]
            /\ UNCHANGED <<is_running, threads, thread>>
    /\ UNCHANGED <<handlers, usec, spc, rx>>
    /\ SnifFrame

\* stop lines 175-176: is_running is cleared; self.thread.join() raises
\* AttributeError when no thread was ever started.
StopBegin ==
    /\ spc = "idle"
    /\ napi < MaxOps
    /\ napi' = napi + 1
    /\ is_running' = FALSE
    /\ IF thread = 0
       THEN /\ api' = [op |-> "stop", arg |-> None, ret |-> "AttributeError"]
            /\ UNCHANGED spc
       ELSE /\ api' = [op |-> "stop", arg |-> None, ret |-> "running"]
            /\ spc' = "join"
    /\ UNCHANGED <<channel, thread, threads, handlers, sinks, init_ts, usec,
                   cmds, rx>>
    /\ SnifFrame

\* stop lines 176-179: join returns, 'ifdown' is sent, the buffers flushed
StopJoin ==
    /\ spc = "join"
    /\ threads[thread].pc \in {"ended", "dead"}
    /\ cmds' = Append(cmds, <<"ifdown">>)
    /\ rx' = <<>>
    /\ spc' = "stop_handlers"
    /\ UNCHANGED <<channel, is_running, thread, threads, handlers, sinks,
                   init_ts, usec, api, napi>>
    /\ SnifFrame

\* stop lines 180-181: every sink is stopped
StopHandlers ==
    /\ spc = "stop_handlers"
    /\ sinks' = CallAll(sinks, handlers, <<"stop">>)
    /\ spc' = "clear"
    /\ UNCHANGED <<channel, is_running, thread, threads, handlers, init_ts,
                   usec, cmds, api, napi, rx>>
    /\ SnifFrame

\* stop line 182: self.handlers = []
StopClear ==
    /\ spc = "clear"
    /\ handlers' = <<>>
    /\ api' = [api EXCEPT !.ret = "None"]
    /\ spc' = "idle"
    /\ UNCHANGED <<channel, is_running, thread, threads, sinks, init_ts,
                   usec, cmds, napi, rx>>
    /\ SnifFrame

\* receive line 187: while self.is_running
RxLoop(t) ==
    /\ threads[t].pc = "loop"
    /\ threads' = [threads EXCEPT ![t].pc = IF is_running THEN "read" ELSE "ended"]
    /\ UNCHANGED <<channel, is_running, thread, handlers, sinks, init_ts,
                   usec, cmds, api, napi, spc, rx>>
    /\ SnifFrame

\* PCAPFrame(frame_data, link_type_tap, usec, rssi, lqi, channel)
PCAPFrame(frame_data, us, rssi, lqi, chan) ==
    [data |-> frame_data, usec |-> us, rssi |-> rssi, lqi |-> lqi,
     channel |-> chan]

\* a record is built whatever the length of what was read
FullReadAlways(frame_data, frame_len) == TRUE

\* receive line 194: len(frame_data) == frame_len
FullRead(frame_data, frame_len) == Len(frame_data) = frame_len

\* receive lines 188-201: one octet is read and given to the header; with
\* a complete header the PSDU is read, and when all of it came the time
\* is computed and the record built.
RxRead(t) ==
    /\ threads[t].pc = "read"
    /\ IF rx = <<>>
       THEN /\ threads' = [threads EXCEPT ![t].pc = "loop"]
            /\ UNCHANGED <<rx, usec>>
       ELSE LET r == add_byte(threads[t].header, Head(rx))
                frame_len == r.ret.frame_len
                frame_data == Take(Tail(rx), frame_len)
                us == IF ~r.h.ust THEN init_ts + r.ret.tstamp * 16
                      ELSE init_ts + r.ret.tstamp
            IN  IF frame_len = None
                THEN /\ threads' = [threads EXCEPT ![t].pc = "loop",
                                                   ![t].header = r.h]
                     /\ rx' = Tail(rx)
                     /\ UNCHANGED usec
                ELSE /\ rx' = Drop(Tail(rx), frame_len)
                     /\ IF FullRead(frame_data, frame_len)
                        THEN /\ usec' = us
                             /\ threads' =
                                  [threads EXCEPT
                                     ![t].pc = "handle",
                                     ![t].header = r.h,
                                     ![t].frame = <<PCAPFrame(
                                         frame_data, us, r.ret.rssi,
                                         r.ret.lqi, channel)>>]
                        ELSE /\ threads' = [threads EXCEPT ![t].pc = "loop",
                                                           ![t].header = r.h]
                             /\ UNCHANGED usec
    /\ UNCHANGED <<channel, is_running, thread, handlers, sinks, init_ts,
                   cmds, api, napi, spc>>
    /\ SnifFrame

\* a sink whose stop() has been called: the file is closed
Stopped(log) == Has(log, <<"stop">>)

\* receive lines 202-203: the record is handed to every sink of
\* self.handlers; FileHandler.handle on a closed file raises ValueError,
\* which ends the thread.
RxHandle(t) ==
    /\ threads[t].pc = "handle"
    /\ sinks' = CallAll(sinks, handlers, <<"handle", threads[t].frame[1]>>)
    /\ threads' = [threads EXCEPT
                     ![t].pc = IF \E i \in 1..Len(handlers) :
                                      Stopped(sinks[handlers[i]])
                               THEN "dead" ELSE "loop",
                     ![t].frame = <<>>]
    /\ UNCHANGED <<channel, is_running, thread, handlers, init_ts, usec,
                   cmds, api, napi, spc, rx>>
    /\ SnifFrame

\* Any calls on the sniffer, in any order, on a channel without traffic:
\* the device sends no frame.
InitSnif == CobsIdle /\ KbiIdle /\ PortIdle /\ ReaderInit /\ CallerInit /\ ThIdle /\ SnifIdle /\ FwuIdle /\ UnitIdle
SnifNext ==
    \/ ConfigHandler
    \/ \E c \in Channels : Start(c)
    \/ \E c \in Channels : SetChannel(c)
    \/ StopBegin \/ StopJoin \/ StopHandlers \/ StopClear
    \/ \E t \in 1..Len(threads) : RxLoop(t)
    \/ \E t \in 1..Len(threads) : RxRead(t)
SpecSnif == InitSnif /\ [][SnifNext]_vars

\* One capture: the sinks are configured, start is called once with a
\* channel it accepts, the device sends frames, stop is called.
CapConfig == threads = <<>> /\ ConfigHandler
CapStart == threads = <<>> /\ \E c \in Channels \cap 11..26 : Start(c)
InitCap == CobsIdle /\ KbiIdle /\ PortIdle /\ ReaderInit /\ CallerInit /\ ThIdle /\ SnifIdle /\ FwuIdle /\ UnitIdle
CapNext ==
    \/ CapConfig \/ CapStart
    \/ StopBegin \/ StopJoin \/ StopHandlers \/ StopClear
    \/ \E t \in 1..Len(threads) : RxLoop(t)
    \/ \E t \in 1..Len(threads) : RxRead(t)
    \/ \E t \in 1..Len(threads) : RxHandle(t)
    \/ DevSniff
SpecCap == InitCap /\ [][CapNext]_vars

(***************************************************************************)
(* kidfu.DfuFile: the firmware image and its 16-octet suffix.              *)
(***************************************************************************)
\* s[-n:]
LastN(s, n) == SubSeq(s, Max(Len(s) - n, 0) + 1, Len(s))

\* s[:-n]
ButLastN(s, n) == SubSeq(s, 1, Max(Len(s) - n, 0))

\* struct '<H'
UnpackLE(b) == b[1] + 256 * b[2]

\* A slip in the format: '<HHHHB3sL', the length octet before the signature.
parseLengthFirst(data) ==
    IF Len(data) # 16 THEN [error |-> TRUE]
    ELSE [error     |-> FALSE,
          fwVersion |-> UnpackLE(SubSeq(data, 1, 2)),
          pid       |-> UnpackLE(SubSeq(data, 3, 4)),
          vid       |-> UnpackLE(SubSeq(data, 5, 6)),
          dfuSpec   |-> UnpackLE(SubSeq(data, 7, 8)),
          length    |-> data[9],
          signature |-> SubSeq(data, 10, 12),
          crc       |-> SubSeq(data, 13, 16)]

\* parse("<HHHH3sBL", data, names): struct.unpack wants exactly 16 octets
\* and raises struct.error for any other length.  crc stays four octets.
parse(data) ==
    IF Len(data) # 16 THEN [error |-> TRUE]
    ELSE [error     |-> FALSE,
          fwVersion |-> UnpackLE(SubSeq(data, 1, 2)),
          pid       |-> UnpackLE(SubSeq(data, 3, 4)),
          vid       |-> UnpackLE(SubSeq(data, 5, 6)),
          dfuSpec   |-> UnpackLE(SubSeq(data, 7, 8)),
          signature |-> SubSeq(data, 9, 11),
          length    |-> data[12],
          crc       |-> SubSeq(data, 13, 16)]

\* b'UFD'
UFD == <<85, 70, 68>>

\* DfuFile.__init__(path): the object made, or the exception that left it.
DfuFile(can_open, octets) ==
    IF ~can_open
    THEN [NoDfuFile EXCEPT !.raised = "ArgumentTypeError: Could not open file"]
    ELSE LET suffix == parse(LastN(octets, 16)) IN
         IF suffix.error
         THEN [NoDfuFile EXCEPT !.raised = "struct.error"]
         ELSE IF suffix.signature # UFD
         THEN [NoDfuFile EXCEPT
                  !.raised = "ArgumentTypeError: signature does not match"]
         ELSE [made     |-> TRUE,
               raised   |-> "None",
               data     |-> ButLastN(octets, 16),
               dev_info |-> <<suffix.fwVersion, suffix.pid, suffix.vid,
                              suffix.dfuSpec>>]

\* A suffix: fwVersion 1, pid 0, vid 0x2DEF, dfuSpec 0x0100, the three
\* octets given as signature, length 16, a crc.
Suffix(sig) == <<1, 0, 0, 0, 239, 45, 0, 1>> \o sig \o <<16, 1, 2, 3, 4>>

\* UFD, its reverse, lower case, one octet off, and nothing.
Signatures ==
    {UFD, <<68, 70, 85>>, <<117, 102, 100>>, <<85, 70, 0>>, <<0, 0, 0>>}

\* The signature one octet late, where the length octet belongs.
SuffixShifted == <<1, 0, 0, 0, 239, 45, 0, 1, 0>> \o UFD \o <<1, 2, 3, 4>>

Bodies == UNION {[1..n -> {0, 85}] : n \in 0..MaxBody}

\* Files with a whole suffix behind some firmware, and files of fewer than
\* 16 octets: the end of a good suffix, and zeros.
Files ==
    {body \o Suffix(sig) : body \in Bodies, sig \in Signatures}
    \cup {body \o SuffixShifted : body \in Bodies}
    \cup {LastN(Suffix(UFD), n) : n \in 0..15}
    \cup {Zeros(n) : n \in 0..15}

FileInit ==
    /\ readable \in BOOLEAN
    /\ file_data \in (IF readable THEN Files ELSE {<<>>})
    /\ dfu_file = NoDfuFile
    /\ fpc = "new"

\* kidfu.DfuFile(path)
NewDfuFile ==
    /\ fpc = "new"
    /\ dfu_file' = DfuFile(readable, file_data)
    /\ fpc' = "done"
    /\ UNCHANGED <<readable, file_data>>
    /\ UNCHANGED <<cobsVars, kbiVars, portVars, readerVars, callerVars, thVars,
                   snifVars, workerVars, supVars, unitVars>>

InitDfuFile ==
    /\ CobsIdle /\ KbiIdle /\ PortIdle /\ ReaderInit /\ CallerInit /\ ThIdle
    /\ SnifIdle /\ FileInit /\ WorkerIdle /\ SupIdle /\ UnitIdle
DfuFileNext == NewDfuFile
SpecDfuFile == InitDfuFile /\ [][DfuFileNext]_vars

(***************************************************************************)
(* kifwu.kbi_flash: one worker sends the firmware to one device, block by  *)
(* block, as KBI commands.  kicmds.py as it stands defines none of FT_CMD, *)
(* CMD_FW_UP and FT_RSP; their values are those of the newer dialect.      *)
(***************************************************************************)
FT_CMD == 16
FT_RSP == 0
CMD_FW_UP == 48

\* kbi_flash lines 318-319
crsp_val == BitOr(FT_RSP, RC_VALUE)
crsp_err == BitOr(FT_RSP, RC_FWUERR)

\* [data[i : i + 64] for i in range(0, len(data), 64)]
Blocks(data) ==
    [k \in 1..((Len(data) + 63) \div 64) |->
        SubSeq(data, 64 * (k - 1) + 1, Min(64 * k, Len(data)))]

\* The outcome strings: '<snum>: <text>', with the number the text carries
\* (a block, a DFU state) where it carries one.
Outcome(text, n) == [text |-> text, num |-> n]

\* kbi_cmd lines 158-168 on the octets the device answers with: the read
\* loop ends when decode returns non-zero, or with -2 when no octet comes.
RECURSIVE ReadLoop(_, _)
ReadLoop(d, octets) ==
    IF octets = <<>> THEN [d |-> d, size |-> -2]
    ELSE LET r == decode(d, Head(octets)) IN
         IF r.ret # 0 THEN [d |-> r.d, size |-> r.ret]
         ELSE ReadLoop(r.d, Tail(octets))

\* kbi_cmd lines 173-180: the response when it is valid, None when not.
kbi_cmd(octets) ==
    LET e == ReadLoop(DecoderInit, octets)
        r == KBIResponse(dec_get_data(e.d), e.size)
    IN  IF is_valid(r) THEN r ELSE RspNone

\* What a device may answer to block b: the acknowledgement, with and
\* without an octet after the block number; another block number; one
\* payload octet and none; another opcode; the plain OK; the firmware
\* update error; a damaged checksum; nothing.
FlashReplies(b) ==
    { OnWire(RspFrame(crsp_val, CMD_FW_UP, PackH(b))),
      OnWire(RspFrame(crsp_val, CMD_FW_UP, PackH(b) \o <<65>>)),
      OnWire(RspFrame(crsp_val, CMD_FW_UP, PackH(b + 1))),
      OnWire(RspFrame(crsp_val, CMD_FW_UP, <<b>>)),
      OnWire(RspFrame(crsp_val, CMD_FW_UP, <<>>)),
      OnWire(RspFrame(crsp_val, 74, PackH(b))),
      OnWire(RspFrame(BitOr(FT_RSP, RC_OK), CMD_FW_UP, PackH(b))),
      OnWire(RspFrame(crsp_err, CMD_FW_UP, <<>>)),
      OnWire(BadXor(RspFrame(crsp_val, CMD_FW_UP, PackH(b)))),
      <<>> }

\* Lengths of firmware that give 0..MaxBlocks blocks, the last one whole or
\* of one octet.
DataLens ==
    {64 * k : k \in 0..MaxBlocks} \cup {64 * k + 1 : k \in 0..(MaxBlocks - 1)}

\* A worker is about to run on a DfuFile that was made from a good file.
WorkerInit ==
    /\ readable = TRUE
    /\ \E n \in DataLens : file_data = Rep(85, n) \o Suffix(UFD)
    /\ dfu_file = DfuFile(readable, file_data)
    /\ fpc = "done"
    /\ bnum = 0
    /\ retries = 0
    /\ flash_req = <<>>
    /\ flash_rsp = RspNone
    /\ txcount = [k \in 1..Len(Blocks(dfu_file.data)) |-> 0]
    /\ resets = 0
    /\ queue = <<>>
    /\ fexc = "None"
    /\ status = None
    /\ dlog = <<>>
    /\ fwpc = "new"

\* What every step of a worker leaves alone.
FlashFrame ==
    /\ UNCHANGED <<fileVars, status, dlog>>
    /\ UNCHANGED <<cobsVars, kbiVars, portVars, readerVars, callerVars, thVars,
                   snifVars, supVars, unitVars>>

\* "except: queue.put('%s: Serial error' % kidev.snum)" for the exception e
KfSerialError(e) ==
    /\ fexc' = e
    /\ queue' = Append(queue, Outcome("Serial error", None))
    /\ fwpc' = "end"

\* The block after the one that was acknowledged, or the reset.
KfAdvance ==
    IF bnum + 1 < Len(Blocks(dfu_file.data))
    THEN bnum' = bnum + 1 /\ retries' = 5 /\ fwpc' = "send"
    ELSE UNCHANGED <<bnum, retries>> /\ fwpc' = "reset"

\* kbi_flash lines 320-341: the port is opened and the blocks are cut, or
\* KiSerial raises.
KfBegin ==
    /\ fwpc = "new"
    /\ \/ /\ IF Blocks(dfu_file.data) = <<>>
             THEN fwpc' = "reset" /\ UNCHANGED retries
             ELSE fwpc' = "send" /\ retries' = 5
          /\ UNCHANGED <<queue, fexc>>
       \/ KfSerialError("SerialException") /\ UNCHANGED retries
    /\ UNCHANGED <<bnum, flash_req, flash_rsp, txcount, resets>>
    /\ FlashFrame

\* kbi_flash lines 343-344: the command that carries the block is built,
\* kbi_cmd writes it and returns what it read; or the port raises.
KfCmd ==
    /\ fwpc = "send"
    /\ LET payload == PackH(bnum) \o Blocks(dfu_file.data)[bnum + 1]
           kbi_request == KBICommand("", FT_CMD, CMD_FW_UP, payload)
       IN  /\ flash_req' = get_data(kbi_request)
           /\ txcount' = [txcount EXCEPT ![bnum + 1] = @ + 1]
           /\ \/ /\ \E octets \in FlashReplies(bnum) :
                        flash_rsp' = kbi_cmd(octets)
                 /\ fwpc' = "check"
                 /\ UNCHANGED <<queue, fexc>>
              \/ KfSerialError("SerialException") /\ flash_rsp' = RspNone
    /\ UNCHANGED <<bnum, retries, resets>>
    /\ FlashFrame

\* A slip: the opcode of the response is not compared.
KfAckedAnyCode(kbi_response, b) ==
    /\ get_type(kbi_response) = crsp_val
    /\ Len(get_payload(kbi_response)) >= 2
    /\ UnpackH(Take(get_payload(kbi_response), 2)) = b

\* kbi_flash lines 353-358: "Block sent successfully"
KfAcked(kbi_response, b) ==
    /\ get_type(kbi_response) = crsp_val
    /\ Len(get_payload(kbi_response)) >= 2
    /\ get_code(kbi_response) = CMD_FW_UP
    /\ UnpackH(Take(get_payload(kbi_response), 2)) = b

\* A slip: the opcode of the response is compared with the error type.
KfFatalByCode(kbi_response) == get_code(kbi_response) = crsp_err

\* kbi_flash line 350: "Protocol error, finish"
KfFatal(kbi_response) == get_type(kbi_response) = crsp_err

\* A slip: the test is made before the count is taken down.
KfExhaustedLate(left) == left = 0

\* kbi_flash lines 361-362: "retries -= 1", then "while retries" and
\* "if not retries"
KfExhausted(left) == left - 1 = 0

\* kbi_flash lines 345-368 on what kbi_cmd returned.  None has no
\* is_valid: the AttributeError is caught by the bare except.
KfCheck ==
    /\ fwpc = "check"
    /\ IF flash_rsp.isNone
       THEN KfSerialError("AttributeError") /\ UNCHANGED <<bnum, retries>>
       ELSE IF is_valid(flash_rsp) /\ KfFatal(flash_rsp)
       THEN /\ queue' = Append(queue, Outcome("FWU error", None))
            /\ fwpc' = "end"
            /\ UNCHANGED <<bnum, retries, fexc>>
       ELSE IF is_valid(flash_rsp) /\ KfAcked(flash_rsp, bnum)
       THEN KfAdvance /\ UNCHANGED <<queue, fexc>>
       ELSE IF KfExhausted(retries)
       THEN /\ retries' = retries - 1
            /\ queue' = Append(queue,
                   Outcome("Could not send block after 5 retries.", bnum))
            /\ fwpc' = "end"
            /\ UNCHANGED <<bnum, fexc>>
       ELSE /\ retries' = retries - 1
            /\ fwpc' = "send"
            /\ UNCHANGED <<bnum, queue, fexc>>
    /\ UNCHANGED <<flash_req, flash_rsp, txcount, resets>>
    /\ FlashFrame

\* kbi_flash lines 375-376: dev.ksh_cmd('reset') and the OK, or the port
\* raises while the reset is sent.
KfReset ==
    /\ fwpc = "reset"
    /\ \/ /\ resets' = resets + 1
          /\ queue' = Append(queue, Outcome("OK", None))
          /\ fwpc' = "end"
          /\ UNCHANGED fexc
       \/ KfSerialError("SerialException") /\ UNCHANGED resets
    /\ UNCHANGED <<bnum, retries, flash_req, flash_rsp, txcount>>
    /\ FlashFrame

InitKbiFlash ==
    /\ CobsIdle /\ KbiIdle /\ PortIdle /\ ReaderInit /\ CallerInit /\ ThIdle
    /\ SnifIdle /\ WorkerInit /\ SupIdle /\ UnitIdle
KbiFlashNext == KfBegin \/ KfCmd \/ KfCheck \/ KfReset
SpecKbiFlash == InitKbiFlash /\ [][KbiFlashNext]_vars

(***************************************************************************)
(* kifwu.dfu_flash: one worker sends the firmware to one device over       *)
(* USB-DFU.  dlog holds the requests as <<request, value, length>> and the *)
(* states GETSTATUS reported as <<DFU_GETSTATUS, state, 0>>; a state       *)
(* DFU_DOWNLOAD_BUSY that wait_while_state polls past is not logged.       *)
(***************************************************************************)
DFU_DOWNLOAD == 1
DFU_GETSTATUS == 3
DFU_CLRSTATUS == 4
DFU_DOWNLOAD_BUSY == 4
DFU_DOWNLOAD_IDLE == 5
DFU_MANIFEST_SYNC == 6
DFU_ERROR == 10

\* class DfuState: APP_IDLE .. DFU_ERROR
DfuStates == 0..10

\* What every step of the DFU worker leaves alone.
DfuFrame ==
    /\ UNCHANGED <<fileVars, retries, flash_req, flash_rsp>>
    /\ UNCHANGED <<cobsVars, kbiVars, portVars, readerVars, callerVars, thVars,
                   snifVars, supVars, unitVars>>

\* usb.core.USBError raised outside the try of dfu_flash: it leaves the
\* function, and the thread that runs it ends.
DfUncaught ==
    /\ fexc' = "USBError"
    /\ fwpc' = "dead"
    /\ UNCHANGED queue

\* dfu_flash lines 276-278
DfUsbError ==
    /\ fexc' = "USBError"
    /\ queue' = Append(queue, Outcome("USB error", None))
    /\ fwpc' = "end"

\* dfu_flash lines 250-255: the serial number is read, left-over errors are
\* cleared and the blocks are cut.
DfBegin ==
    /\ fwpc = "new"
    /\ \/ /\ \E st \in DfuStates :
                /\ status' = st
                /\ dlog' = <<<<DFU_GETSTATUS, st, 0>>>> \o
                      (IF st = DFU_ERROR THEN <<<<DFU_CLRSTATUS, 0, 0>>>>
                       ELSE <<>>)
          /\ fwpc' = IF Blocks(dfu_file.data) = <<>> THEN "leave" ELSE "write"
          /\ UNCHANGED <<queue, fexc>>
       \/ DfUncaught /\ UNCHANGED <<status, dlog>>
    /\ UNCHANGED <<bnum, txcount, resets>>
    /\ DfuFrame

\* dfu_flash line 271: dfu.write(bnum, block), DfuDevice.write 66-67
DfWrite ==
    /\ fwpc = "write"
    /\ \/ /\ dlog' = Append(dlog, <<DFU_DOWNLOAD, bnum,
                                    Len(Blocks(dfu_file.data)[bnum + 1])>>)
          /\ txcount' = [txcount EXCEPT ![bnum + 1] = @ + 1]
          /\ fwpc' = "wait"
          /\ UNCHANGED <<queue, fexc>>
       \/ DfUsbError /\ UNCHANGED <<dlog, txcount>>
    /\ UNCHANGED <<bnum, status, resets>>
    /\ DfuFrame

\* A slip: "if status[1] == kidfu.DfuState.DFU_ERROR"
DfBlockFailedOnError(st) == st = DFU_ERROR

\* dfu_flash line 273
DfBlockFailed(st) == st # DFU_DOWNLOAD_IDLE

\* dfu_flash lines 272-280: one GETSTATUS of wait_while_state (kidfu.py
\* 78-84) and, once the state is no longer DFU_DOWNLOAD_BUSY, the test of it.
DfWait ==
    /\ fwpc = "wait"
    /\ \/ \E st \in DfuStates :
            /\ status' = st
            /\ IF st = DFU_DOWNLOAD_BUSY
               THEN UNCHANGED <<dlog, bnum, queue, fwpc>>
               ELSE /\ dlog' = Append(dlog, <<DFU_GETSTATUS, st, 0>>)
                    /\ IF DfBlockFailed(st)
                       THEN /\ queue' = Append(queue, Outcome("Error", st))
                            /\ fwpc' = "end"
                            /\ UNCHANGED bnum
                       ELSE /\ IF bnum + 1 < Len(Blocks(dfu_file.data))
                               THEN bnum' = bnum + 1 /\ fwpc' = "write"
                               ELSE UNCHANGED bnum /\ fwpc' = "leave"
                            /\ UNCHANGED queue
            /\ UNCHANGED fexc
       \/ DfUsbError /\ UNCHANGED <<status, dlog, bnum>>
    /\ UNCHANGED <<txcount, resets>>
    /\ DfuFrame

\* dfu_flash line 286: dfu.leave(), DfuDevice.leave 69-70
DfLeave ==
    /\ fwpc = "leave"
    /\ \/ /\ dlog' = Append(dlog, <<DFU_DOWNLOAD, 0, 0>>)
          /\ resets' = resets + 1
          /\ fwpc' = "final"
          /\ UNCHANGED <<queue, fexc>>
       \/ DfUncaught /\ UNCHANGED <<dlog, resets>>
    /\ UNCHANGED <<bnum, txcount, status>>
    /\ DfuFrame

\* A slip: any state but DFU_ERROR counts as success.
DfManifestedUnlessError(st) == st # DFU_ERROR

\* dfu_flash line 288
DfManifested(st) == st = DFU_MANIFEST_SYNC

\* dfu_flash lines 287-291
DfFinish ==
    /\ fwpc = "final"
    /\ \/ /\ \E st \in DfuStates :
                /\ status' = st
                /\ dlog' = Append(dlog, <<DFU_GETSTATUS, st, 0>>)
                /\ queue' = Append(queue,
                       IF DfManifested(st) THEN Outcome("OK", None)
                       ELSE Outcome("Error finish", None))
          /\ fwpc' = "end"
          /\ UNCHANGED fexc
       \/ DfUncaught /\ UNCHANGED <<status, dlog>>
    /\ UNCHANGED <<bnum, txcount, resets>>
    /\ DfuFrame

InitDfuFlash ==
    /\ CobsIdle /\ KbiIdle /\ PortIdle /\ ReaderInit /\ CallerInit /\ ThIdle
    /\ SnifIdle /\ WorkerInit /\ SupIdle /\ UnitIdle
DfuFlashNext == DfBegin \/ DfWrite \/ DfWait \/ DfLeave \/ DfFinish
SpecDfuFlash == InitDfuFlash /\ [][DfuFlashNext]_vars

(***************************************************************************)
(* kifwu.dfu_find_and_flash, from "while dfus_selected", and                *)
(* kifwu.parallel_program: the supervisor flashes the selected devices in  *)
(* batches, one dfu_flash thread per device of a batch.  A thread is seen  *)
(* by the supervisor only through join() and through the queue, and the    *)
(* threads of a batch are joined in the order they were started, so the    *)
(* model keeps the state of the thread next to be joined and counts the    *)
(* other started threads that run and that have terminated.  A worker is   *)
(* two steps, dfu_flash puts its outcome and then returns, or one: it ends *)
(* on a USBError raised outside its try (DfUncaught) with nothing put.     *)
(***************************************************************************)
\* MAX_PARALLEL_DEVICES = 18
MAX_PARALLEL_DEVICES == 18

SupInit ==
    /\ \E n \in 1..MaxDevices : dfus_selected = [i \in 1..n |-> i]
    /\ batch = <<>>
    /\ nstarted = 0
    /\ njoined = 0
    /\ joinee = "new"
    /\ alive = 0
    /\ leaving = 0
    /\ dead = 0
    /\ qsize = 0
    /\ nresults = 0
    /\ flashed = <<>>
    /\ ppc = "loop"

\* What every step of the supervisor or of a worker under it leaves alone.
SupFrame ==
    /\ UNCHANGED <<fileVars, workerVars>>
    /\ UNCHANGED <<cobsVars, kbiVars, portVars, readerVars, callerVars, thVars,
                   snifVars, unitVars>>

\* while dfus_selected: batch = dfus_selected[:MAX_PARALLEL_DEVICES];
\* parallel_program(dfu_flash, batch, dfu_file) makes its queue and one
\* Thread per device.
SupBatch ==
    /\ ppc = "loop"
    /\ dfus_selected # <<>>
    /\ batch' = Take(dfus_selected, MAX_PARALLEL_DEVICES)
    /\ nstarted' = 0
    /\ njoined' = 0
    /\ joinee' = "new"
    /\ qsize' = 0
    /\ ppc' = "start"
    /\ UNCHANGED <<dfus_selected, alive, leaving, dead, nresults, flashed>>
    /\ SupFrame

\* for thread in threads: thread.start()
SupStart ==
    /\ ppc = "start"
    /\ nstarted < Len(batch)
    /\ nstarted' = nstarted + 1
    /\ flashed' = Append(flashed, batch[nstarted + 1])
    /\ IF nstarted = njoined
          THEN joinee' = "alive" /\ UNCHANGED alive
          ELSE alive' = alive + 1 /\ UNCHANGED joinee
    /\ ppc' = IF nstarted + 1 = Len(batch) THEN "join" ELSE "start"
    /\ UNCHANGED <<dfus_selected, batch, njoined, leaving, dead, qsize,
                   nresults>>
    /\ SupFrame

\* dfu_flash puts its outcome (OK, Error, USB error) on the queue.
WkOutcome ==
    /\ \/ /\ joinee = "alive"
          /\ joinee' = "put"
          /\ UNCHANGED <<alive, leaving>>
       \/ /\ alive > 0
          /\ alive' = alive - 1
          /\ leaving' = leaving + 1
          /\ UNCHANGED joinee
    /\ qsize' = qsize + 1
    /\ UNCHANGED <<dfus_selected, batch, nstarted, njoined, dead, nresults,
                   flashed, ppc>>
    /\ SupFrame

\* dfu_flash returns after its put and the thread terminates.
WkReturn ==
    /\ \/ /\ joinee = "put"
          /\ joinee' = "dead"
          /\ UNCHANGED <<leaving, dead>>
       \/ /\ leaving > 0
          /\ leaving' = leaving - 1
          /\ dead' = dead + 1
          /\ UNCHANGED joinee
    /\ UNCHANGED <<dfus_selected, batch, nstarted, njoined, alive, qsize,
                   nresults, flashed, ppc>>
    /\ SupFrame

\* dfu_flash ends on a USBError raised outside its try: the thread
\* terminates and nothing is put.
WkUncaught ==
    /\ \/ /\ joinee = "alive"
          /\ joinee' = "dead"
          /\ UNCHANGED <<alive, dead>>
       \/ /\ alive > 0
          /\ alive' = alive - 1
          /\ dead' = dead + 1
          /\ UNCHANGED joinee
    /\ UNCHANGED <<dfus_selected, batch, nstarted, njoined, leaving, qsize,
                   nresults, flashed, ppc>>
    /\ SupFrame

\* thread.join(): returns once the thread has terminated
SupJoin ==
    /\ ppc = "join"
    /\ joinee = "dead"
    /\ ppc' = "get"
    /\ UNCHANGED <<dfus_selected, batch, nstarted, njoined, joinee, alive,
                   leaving, dead, qsize, nresults, flashed>>
    /\ SupFrame

\* results.append(queue.get()): blocks while the queue is empty; then the
\* loop goes to the next thread, running or terminated, if there is one.
SupGet ==
    /\ ppc = "get"
    /\ qsize > 0
    /\ qsize' = qsize - 1
    /\ nresults' = nresults + 1
    /\ njoined' = njoined + 1
    /\ IF njoined + 1 < Len(batch)
          THEN /\ \/ alive > 0 /\ joinee' = "alive" /\ alive' = alive - 1
                     /\ UNCHANGED <<leaving, dead>>
                  \/ leaving > 0 /\ joinee' = "put"
                     /\ leaving' = leaving - 1 /\ UNCHANGED <<alive, dead>>
                  \/ dead > 0 /\ joinee' = "dead" /\ dead' = dead - 1
                     /\ UNCHANGED <<alive, leaving>>
               /\ ppc' = "join"
          ELSE /\ joinee' = "new"
               /\ UNCHANGED <<alive, leaving, dead>>
               /\ ppc' = "return"
    /\ UNCHANGED <<dfus_selected, batch, nstarted, flashed>>
    /\ SupFrame

\* return results; dfus_selected = dfus_selected[MAX_PARALLEL_DEVICES:]
SupReturn ==
    /\ ppc = "return"
    /\ dfus_selected' = Drop(dfus_selected, MAX_PARALLEL_DEVICES)
    /\ ppc' = "loop"
    /\ UNCHANGED <<batch, nstarted, njoined, joinee, alive, leaving, dead,
                   qsize, nresults, flashed>>
    /\ SupFrame

\* the while loop ends: flash_summary(results, start)
SupSummary ==
    /\ ppc = "loop"
    /\ dfus_selected = <<>>
    /\ ppc' = "done"
    /\ UNCHANGED <<dfus_selected, batch, nstarted, njoined, joinee, alive,
                   leaving, dead, qsize, nresults, flashed>>
    /\ SupFrame

InitSup ==
    /\ CobsIdle /\ KbiIdle /\ PortIdle /\ ReaderInit /\ CallerInit /\ ThIdle
    /\ SnifIdle /\ FileIdle /\ WorkerIdle /\ SupInit /\ UnitIdle
SupNext ==
    \/ SupBatch \/ SupStart \/ WkOutcome \/ WkReturn \/ WkUncaught
    \/ SupJoin \/ SupGet \/ SupReturn \/ SupSummary
SpecSup == InitSup /\ [][SupNext]_vars

(***************************************************************************)
(* KiSerial.wait_for(key, value, inverse): "show <key>" is sent with       *)
(* ksh_cmd until the lines of the response hold, or do not hold, one of    *)
(* value.  ksh_cmd itself is the subject of SpecPoll, SpecUsb and SpecTh;  *)
(* here a call of it returns any list of lines, or raises what it lets     *)
(* through (the KeyError of kbi_to_text).                                  *)
(***************************************************************************)
\* for _ in repeat(None, 120)
WAIT_POLLS == 120

\* Lines a response to "show <key>" can hold.
WaitLines == {"none", "joined"}

WaitInit ==
    /\ wf_value \in SUBSET WaitLines
    /\ wf_inverse \in BOOLEAN
    /\ wf_polls = 0
    /\ wf_rset = {}
    /\ wf_pc = "loop"

\* What every step of wait_for leaves alone.
WaitFrame ==
    UNCHANGED <<cobsVars, kbiVars, portVars, readerVars, callerVars, thVars,
                snifVars, fwuVars, hdrVars, eqVars>>

\* rset = set(self.ksh_cmd('show %s' % key, ...)), or ksh_cmd raises
WfPoll ==
    /\ wf_pc = "loop"
    /\ wf_polls < WAIT_POLLS
    /\ wf_polls' = wf_polls + 1
    /\ \/ \E lines \in SUBSET WaitLines :
            wf_rset' = lines /\ wf_pc' = "test"
       \/ wf_pc' = "raised" /\ UNCHANGED wf_rset
    /\ UNCHANGED <<wf_value, wf_inverse>>
    /\ WaitFrame

\* A slip: the inverse argument is not looked at.
WfFoundPlain == wf_rset \cap wf_value # {}

\* The two tests that end the loop: "not inverse and not
\* rset.isdisjoint(vset)", "inverse and rset.isdisjoint(vset)".
WfFound ==
    \/ ~wf_inverse /\ wf_rset \cap wf_value # {}
    \/ wf_inverse /\ wf_rset \cap wf_value = {}

\* break
WfBreak ==
    /\ wf_pc = "test"
    /\ WfFound
    /\ wf_pc' = "returned"
    /\ UNCHANGED <<wf_value, wf_inverse, wf_polls, wf_rset>>
    /\ WaitFrame

\* sleep(1), and the next round of the loop
WfSleep ==
    /\ wf_pc = "test"
    /\ ~WfFound
    /\ wf_pc' = "loop"
    /\ UNCHANGED <<wf_value, wf_inverse, wf_polls, wf_rset>>
    /\ WaitFrame

\* The loop has made its 120 rounds.
WfExhausted ==
    /\ wf_pc = "loop"
    /\ wf_polls = WAIT_POLLS
    /\ wf_pc' = "returned"
    /\ UNCHANGED <<wf_value, wf_inverse, wf_polls, wf_rset>>
    /\ WaitFrame

InitWait ==
    /\ CobsIdle /\ KbiIdle /\ PortIdle /\ ReaderInit /\ CallerInit /\ ThIdle
    /\ SnifIdle /\ FwuIdle /\ WaitInit /\ HdrIdle /\ EqIdle
WaitNext == WfPoll \/ WfBreak \/ WfSleep \/ WfExhausted
\* Every call wait_for makes returns or raises, and sleep(1) ends.
SpecWait == InitWait /\ [][WaitNext]_vars /\ WF_vars(WaitNext)

(***************************************************************************)
(* A KiraleFrameHeader of its own, fed a stream octet by octet: junk, a    *)
(* header, and then nothing or a second header.  The octets that follow a  *)
(* magic number are a plain length and time, or they spell a magic number  *)
(* themselves.                                                             *)
(***************************************************************************)
JunkOctets == {193, 31, 7}
Junk == UNION {[1..n -> JunkOctets] : n \in 0..MaxJunk}

\* The octets after the magic number of REPRS[i]: length and time field.
HdrTails(i) ==
    IF i = 1 THEN {<<0, 2, 0, 0, 0, 3>>, <<83, 78, 73, 70, 0, 3>>}
    ELSE {<<0, 2, 200, 7, 0, 0, 0, 0, 0, 3>>,
          <<193, 31, 254, 114, 0, 0, 0, 0, 0, 3>>}

HdrOctets == UNION {{REPRS[i].mgc \o t : t \in HdrTails(i)} : i \in 1..4}

HdrStreams == {j \o a \o b : j \in Junk, a \in HdrOctets, b \in HdrOctets \cup {<<>>}}

HdrInit ==
    /\ hstream \in HdrStreams
    /\ hobj = HeaderInit
    /\ hfed = <<>>
    /\ hrets = <<>>

\* self.header.add_byte(byte) on the next octet of the stream
HdrFeed ==
    /\ hstream # <<>>
    /\ LET r == add_byte(hobj, Head(hstream)) IN
        /\ hobj' = r.h
        /\ hrets' = Append(hrets, r.ret)
    /\ hfed' = Append(hfed, Head(hstream))
    /\ hstream' = Tail(hstream)
    /\ UNCHANGED <<cobsVars, kbiVars, portVars, readerVars, callerVars, thVars,
                   snifVars, fwuVars, waitVars, eqVars>>

InitHdr ==
    /\ CobsIdle /\ KbiIdle /\ PortIdle /\ ReaderInit /\ CallerInit /\ ThIdle
    /\ SnifIdle /\ FwuIdle /\ WaitIdle /\ HdrInit /\ EqIdle
HdrNext == HdrFeed
SpecHdr == InitHdr /\ [][HdrNext]_vars

(***************************************************************************)
(* ksh_cmd of the two transports in KBI mode, each called once with the    *)
(* same valid request and played the same script of attempt outcomes.      *)
(***************************************************************************)
Outcomes == {"match", "other", "framing", "timeout"}

\* The response an attempt that ended as o hands over: a valid response
\* with the request's opcode or with another one; None after a framing
\* error.
RspOf(o, request) ==
    IF o = "match"
    THEN KBIResponse(RspFrame(BitOr(CT_RSC, RC_VALUE), get_code(request), <<65>>), 6)
    ELSE IF o = "other"
    THEN KBIResponse(RspFrame(BitOr(CT_RSC, RC_VALUE), 75, <<65>>), 6)
    ELSE RspNone

EqInit ==
    /\ \E txt \in {t \in CmdTexts : is_valid(KBICommand(t, None, None, <<>>))} :
        eq_req = KBICommand(txt, None, None, <<>>)
    /\ eq_outs \in [1..MaxAttempts -> Outcomes]
    /\ eq_poll = [pc |-> "call", tx |-> 0, cmd_out |-> <<>>, exc |-> "None"]
    /\ eq_th = [pc |-> "call", tx |-> 0, cmd_out |-> <<>>, exc |-> "None"]

EqFrame ==
    UNCHANGED <<cobsVars, kbiVars, portVars, readerVars, callerVars, thVars,
                snifVars, fwuVars, waitVars, hdrVars, eq_req, eq_outs>>

\* KiSerial.ksh_cmd lines 226-235: one kbi_cmd, which writes the request
\* and returns the response or, after a framing error or a read timeout,
\* None; the retry after the first None.
EqPollAttempt ==
    /\ eq_poll.pc \in {"call", "retry"}
    /\ LET o == eq_outs[eq_poll.tx + 1]
           kbi_rsp == IF o = "timeout" THEN RspNone ELSE RspOf(o, eq_req)
           fin == PollDispatch(kbi_rsp, eq_req)
       IN  eq_poll' =
               IF eq_poll.pc = "call" /\ kbi_rsp.isNone
               THEN [pc |-> "retry", tx |-> eq_poll.tx + 1,
                     cmd_out |-> <<Line("Response code not matching")>>,
                     exc |-> "None"]
               ELSE [pc |-> IF fin.exc = "None" THEN "done" ELSE "raised",
                     tx |-> eq_poll.tx + 1,
                     cmd_out |-> fin.cmd_out, exc |-> fin.exc]
    /\ UNCHANGED eq_th
    /\ EqFrame

\* KiSerialTh.ksh_cmd lines 408-417: the request is queued for the writer
\* and read_queue.get returns what the reader put, or raises queue.Empty
\* after 3 s (lines 427-428).
EqThAttempt1 ==
    /\ eq_th.pc = "call"
    /\ LET o == eq_outs[1]
           kbi_rsp == RspOf(o, eq_req)
       IN  eq_th' =
               IF o = "timeout"
               THEN [pc |-> "done", tx |-> 1,
                     cmd_out |-> <<Line("Read timeout")>>, exc |-> "None"]
               ELSE IF kbi_rsp.isNone
               THEN [pc |-> "retry", tx |-> 1,
                     cmd_out |-> <<Line("Response code not matching")>>,
                     exc |-> "None"]
               ELSE IF get_code(kbi_rsp) = get_code(eq_req)
               THEN [pc |-> IF to_text(kbi_rsp).exc = "None" THEN "done" ELSE "raised",
                     tx |-> 1,
                     cmd_out |-> to_text(kbi_rsp).lines,
                     exc |-> to_text(kbi_rsp).exc]
               ELSE [pc |-> "done", tx |-> 1,
                     cmd_out |-> <<Line("Response code not matching")>>,
                     exc |-> "None"]
    /\ UNCHANGED eq_poll
    /\ EqFrame

\* KiSerialTh.ksh_cmd lines 413-415: the request is queued again and the
\* second read_queue.get returns or raises queue.Empty.
EqThAttempt2 ==
    /\ eq_th.pc = "retry"
    /\ eq_th' = [eq_th EXCEPT
                    !.pc = "done",
                    !.tx = 2,
                    !.cmd_out = IF eq_outs[2] = "timeout"
                                THEN <<Line("Read timeout")>> ELSE @]
    /\ UNCHANGED eq_poll
    /\ EqFrame

InitEq ==
    /\ CobsIdle /\ KbiIdle /\ PortIdle /\ ReaderInit /\ CallerInit /\ ThIdle
    /\ SnifIdle /\ FwuIdle /\ WaitIdle /\ HdrIdle /\ EqInit
EqNext == EqPollAttempt \/ EqThAttempt1 \/ EqThAttempt2
SpecEq == InitEq /\ [][EqNext]_vars

(***************************************************************************)
(* Properties of the COBS round trip (SpecCobs).                           *)
(***************************************************************************)
Last(s) == s[Len(s)]

\* C1, as stated: for every octet sequence S, KBI frame or not, feeding the
\* octets encode(S) produced to a fresh Decoder ends with the decoder
\* reporting completion (a positive return) and get_data() = S.
C1_AnyInputRoundTrip ==
    cpc = "done" => (Last(rets) > 0 /\ dec_get_data(dec) = input)

\* C1, amended: the same for every S that is a well-formed KBI frame
\* (octets 0..1 hold the big-endian value |S| - 5), with or without the
\* leading delimiter.
C1_FrameRoundTrip ==
    (cpc = "done" /\ WellFormed(input))
        => (Last(rets) > 0 /\ dec_get_data(dec) = input)

C1_Witness ==
    /\ cpc = "done" /\ WellFormed(input) /\ ~delim
    /\ Len(input) > 207 /\ \E i \in 3..Len(input) : input[i] = 0
    /\ dec_get_data(dec) = input

\* C2: for every well-formed KBI frame F, with the COBS encoding of F and
\* its leading delimiter fed octet by octet to a fresh Decoder, decode
\* returns 0 for every octet before the last, |F| on the last, and
\* get_data() then equals F.
C2_FrameReturns ==
    /\ (cpc = "decode" /\ delim /\ WellFormed(input))
        => \A i \in 1..Len(rets) : rets[i] = 0
    /\ (cpc = "done" /\ delim /\ WellFormed(input))
        => /\ Len(rets) = Len(enc_get_data(enc))
           /\ \A i \in 1..(Len(rets) - 1) : rets[i] = 0
           /\ Last(rets) = Len(input)
           /\ dec_get_data(dec) = input

C2_Witness ==
    /\ cpc = "done" /\ delim /\ WellFormed(input)
    /\ Len(rets) > 2 /\ Last(rets) = Len(input) /\ Len(input) > 5

\* C3: for every input, the octets encode appends to its output hold no
\* 0x00, and get_data() is exactly one 0x00 followed by that output.
C3_NoZeroInOutput ==
    cpc \in {"decode", "done"} =>
        LET g == enc_get_data(enc) IN
        /\ Len(g) = Len(enc.out) + 1
        /\ g[1] = 0
        /\ \A i \in 1..Len(enc.out) : enc.out[i] # 0 /\ g[i + 1] = enc.out[i]

C3_Witness ==
    /\ cpc = "decode"
    /\ \E i \in 1..Len(input) : input[i] = 0
    /\ \E i \in 1..Len(input) : input[i] # 0
    /\ Len(enc.out) > 2

(***************************************************************************)
(* Properties of the decoder on any octets (SpecStream).                   *)
(***************************************************************************)
\* C4: whenever a delimiter octet 0x00 has been fed to decode, the decoder
\* is afterwards in the state of a fresh decoder: empty output, no
\* remaining count, no pending zeros, no length.
C4_DelimiterResets ==
    (decoded.inc # <<>> /\ Last(decoded.inc) = 0)
        => /\ decoded.out = <<>>
           /\ decoded.remaining = 0
           /\ decoded.zeros = 0
           /\ decoded.length = None

\* C5: decode returns a negative value whenever the octet it reads as a
\* code octet (no literal octets pending) is 0xD1, 0xD2 or 0xFF, whatever
\* was decoded before.
C5_ReservedCodesFail ==
    [][(/\ rpc = "bytes" /\ rdata # <<>>
        /\ decoded.remaining = 0
        /\ Head(rdata) \in {209, 210, 255}
        /\ decoded'.inc = Append(decoded.inc, Head(rdata)))
       => size' < 0]_vars

\* C6: is_valid() is true if and only if the decoder result is at least 5,
\* the XOR of header octets 0..3 and the payload equals header octet 4, and
\* the big-endian length in octets 0..1 equals the number of payload octets
\* held, len(get_payload()).  Read right after the reader built a response.
C6_ValidIff ==
    (~rsp.isNone /\ decoded = DecoderInit)
        => (is_valid(rsp) <=>
              /\ size >= 5
              /\ ReduceXor(Take(rsp.data, 4) \o get_payload(rsp)) = rsp.data[5]
              /\ UnpackH(Take(rsp.data, 2)) = Len(get_payload(rsp)))

(***************************************************************************)
(* Properties of frame construction and validation (SpecKbi).              *)
(***************************************************************************)
\* C7: KBICommand(None, type, code, payload) produces the octets
\* len_hi len_lo type code xor payload, xor being the XOR of all other
\* octets of the frame, and a KBIResponse built from those octets with size
\* equal to their count is valid and returns the same type, code, payload.
C7_BuildThenParse ==
    kpc = "done" =>
        LET p == kreq[3]
            others == PackH(Len(p)) \o <<kreq[1], kreq[2]>> \o p
        IN  /\ is_valid(kcmd)
            /\ get_data(kcmd) = PackH(Len(p))
                   \o <<kreq[1], kreq[2], ReduceXor(others)>> \o p
            /\ is_valid(krsp)
            /\ get_type(krsp) = kreq[1]
            /\ get_code(krsp) = kreq[2]
            /\ get_payload(krsp) = p

C7_Witness ==
    /\ kpc = "done" /\ is_valid(krsp)
    /\ kreq[1] = 255 /\ kreq[2] = 129 /\ Len(kreq[3]) = 2

(***************************************************************************)
(* Properties of one ksh_cmd call on the polling transport (SpecPoll).     *)
(***************************************************************************)
Failed == {"cobs error", "read timeout", "invalid frame"}
Returned == pc = "done"
Ended == pc \in {"done", "raised"}

\* C8: for a valid request the polling ksh_cmd writes the frame once, writes
\* it a second time exactly when the first attempt ended in a COBS error, a
\* read timeout or an invalid frame, never writes it a third time, and
\* returns ['Read timeout'] exactly when both attempts ended that way.
C8_RetryOnce ==
    /\ writes <= 2
    /\ Len(ends) <= 2
    /\ (is_valid(kbi_req) /\ pc # "send") => writes >= 1
    /\ (is_valid(kbi_req) /\ Ended) =>
        /\ (writes = 2) <=> (Len(ends) >= 1 /\ ends[1] \in Failed)
        /\ Returned =>
            ((cmd_out = <<Line("Read timeout")>>)
               <=> (Len(ends) = 2 /\ ends[1] \in Failed /\ ends[2] \in Failed))

\* A call that sent twice and returned ['Read timeout'], and the call has
\* the first attempt lost to an invalid frame.
C8_Witness ==
    /\ Returned
    /\ is_valid(kbi_req)
    /\ writes = 2
    /\ Len(ends) = 2
    /\ ends[1] = "invalid frame"
    /\ ends[2] = "read timeout"
    /\ cmd_out = <<Line("Read timeout")>>

\* C10: on the polling transport, when the last attempt gave a valid
\* response, the call returns exactly ['Response code not matching'] if the
\* response's opcode differs from the request's, and the response's text
\* lines if the opcodes are equal.
C10_OpcodeDispatch ==
    (Ended /\ got # <<>> /\ ~Last(got).isNone) =>
        /\ Returned
        /\ cmd_out = IF get_code(Last(got)) = get_code(kbi_req)
                     THEN to_text(Last(got)).lines
                     ELSE <<Line("Response code not matching")>>

(***************************************************************************)
(* Properties of one ksh_cmd call on the concurrent transport (SpecTh).    *)
(***************************************************************************)
\* C9: on the concurrent transport, when the first attempt ended in a
\* framing error and the retried request got a valid response with the
\* request's opcode, the call returns that response's text lines.
C9_RetryReturnsText ==
    (/\ Ended
     /\ Len(got) = 2
     /\ got[1].isNone
     /\ ~got[2].isNone
     /\ get_code(got[2]) = get_code(kbi_req)
     /\ to_text(got[2]).exc = "None") =>
        /\ Returned
        /\ cmd_out = to_text(got[2]).lines

(***************************************************************************)
(* Properties of the reader thread (SpecRd).                               *)
(***************************************************************************)
RECURSIVE Select(_, _)
\* The frames of fs, in order, that are valid and whose being a notification
\* is ntf.
Select(fs, ntf) ==
    IF fs = <<>> THEN <<>>
    ELSE LET r == KBIResponse(Head(fs), Len(Head(fs)))
             rest == Select(Tail(fs), ntf)
         IN  IF is_valid(r) /\ is_notification(r) = ntf
             THEN <<r>> \o rest ELSE rest

RECURSIVE Responses(_)
\* The responses on a queue, in order, without the None entries.
Responses(q) ==
    IF q = <<>> THEN <<>>
    ELSE IF Head(q).isNone THEN Responses(Tail(q))
    ELSE <<Head(q)>> \o Responses(Tail(q))

\* The reader has nothing left to do with what has arrived.
ReaderQuiet ==
    \/ rpc = "dead"
    \/ rpc \in {"loop", "read"} /\ rx = <<>> /\ rdata = <<>>

\* C11: in the reader, a valid frame with the notification class bits is
\* never put on the response queue and goes to the log channel in arrival
\* order; every valid non-notification frame is put on the response queue
\* exactly once, in arrival order.
C11_NotificationsToLog ==
    /\ \A i \in 1..Len(read_queue) :
          read_queue[i].isNone \/ ~is_notification(read_queue[i])
    /\ ReaderQuiet =>
        /\ logs = [i \in 1..Len(Select(arrived, TRUE)) |->
                      get_data(Select(arrived, TRUE)[i])]
        /\ Responses(read_queue) = Select(arrived, FALSE)

(***************************************************************************)
(* Properties of the transports as seen from the port (SpecTh, SpecPoll).  *)
(***************************************************************************)
\* C12: with one caller, at most one request frame has been written to
\* the port whose response, error or timeout the caller has not observed.
C12_OneOutstanding == outstanding <= 1

\* C13: in the polling transport every port.write of a request comes
\* right after a flush of the port's buffers by the same call.
C13_FlushBeforeWrite ==
    (ops # <<>> /\ ops[Len(ops)] = <<"caller", "write">>) =>
        (Len(ops) = 2 /\ ops[1] = <<"caller", "flush">>)

\* C14: once close() has been called the reader and the writer thread
\* end and the port is then closed; the port is never closed while one of
\* the two threads is still running.
C14_CloseJoinsThenCloses ==
    /\ [](closed => (rpc \in {"exit", "dead"} /\ wpc = "exit"))
    /\ (pc = "close_put") ~> closed

\* close() has closed the port after a call went through both threads.
C14_Witness ==
    /\ closed
    /\ rpc = "exit" /\ wpc = "exit"
    /\ writes > 0 /\ read_queue = <<>> /\ got # <<>>

\* C15: on the concurrent transport port.write (and the flush before it)
\* is called by the writer thread only and port.read by the reader thread
\* only; the caller touches the port only to close it, after both threads
\* have ended.
C15_ThreadsOwnPort ==
    \A i \in 1..Len(ops) :
        /\ ops[i][2] \in {"write", "flush"} => ops[i][1] = "writer"
        /\ ops[i][2] = "read" => ops[i][1] = "reader"
        /\ ops[i][1] = "caller" =>
              /\ ops[i][2] = "close"
              /\ rpc \in {"exit", "dead"} /\ wpc = "exit"

\* A call has had its answer: the writer wrote the request, the reader
\* read the response, the caller took it from the response queue.
C15_Witness ==
    /\ pc = "done"
    /\ Len(got) = 1 /\ ~got[1].isNone
    /\ ops = <<<<"writer", "write">>, <<"reader", "read">>>>

(***************************************************************************)
(* Properties of the calls on a KiSniffer (SpecSnif).                      *)
(***************************************************************************)
\* C16: whatever calls came before, start(c) with c outside 11..26
\* returns False, sends no command ('ifup' in particular) and starts no
\* capture thread; start(11) and start(26) return True.
C16_BadChannelRejected ==
    [][/\ \A c \in Channels \ (11..26) :
             Start(c) => /\ api'.ret = "False"
                         /\ cmds' = cmds
                         /\ threads' = threads
       /\ \A c \in {11, 26} : Start(c) => api'.ret = "True"]_vars

\* C17: set_channel(c) called while is_running is set changes neither
\* self.channel nor the commands sent to the device.
C17_ChannelKeptWhileRunning ==
    [][\A c \in Channels :
          (is_running /\ SetChannel(c)) =>
              (channel' = channel /\ cmds' = cmds)]_vars

\* set_channel has been called during a capture, with a channel that is
\* valid and is not the one in use.
C17_Witness ==
    /\ api.op = "set_channel"
    /\ is_running
    /\ api.arg \in 11..26
    /\ api.arg # channel
    /\ cmds[Len(cmds)] = <<"ifup">>

\* The calls made on a sink follow start, handle*, stop.
Lifecycle(log) ==
    \A i \in 1..Len(log) :
        /\ (i = 1) <=> (log[i] = <<"start">>)
        /\ log[i] = <<"stop">> => i = Len(log)

\* C20: every sink sees start() once (the global header written once, and
\* first), then handle(record) any number of times, then stop() once and
\* nothing after it.
C20_SinkLifecycle == \A h \in 1..Len(sinks) : Lifecycle(sinks[h])

(***************************************************************************)
(* Properties of one capture (SpecCap).                                    *)
(***************************************************************************)
\* the records handed to a sink, in order
Handled(log) ==
    Map(SelectSeq(log, LAMBDA e : e[1] = "handle"), LAMBDA e : e[2])

\* the frames the device sent whole, in order
Whole == SelectSeq(arrived, LAMBDA f : f.whole)

\* the capture thread is waiting for the first octet of a header
Listening ==
    /\ rx = <<>>
    /\ Len(threads) = 1
    /\ threads[1].pc \in {"loop", "read"}
    /\ threads[1].header.bytes = <<>>

\* s is the beginning of t
IsPrefix(s, t) == Len(s) <= Len(t) /\ s = Take(t, Len(s))

\* C18: the PSDUs of the records a sink was handed are, in order, those
\* of the frames that came whole, one record per frame and the same for
\* every sink; all of them once the loop has read what was sent during a
\* capture.  A frame whose PSDU came short gives no record.
C18_OneRecordPerFrame ==
    \A h \in 1..Len(sinks) :
        LET got_h == Map(Handled(sinks[h]), LAMBDA r : r.data)
            all == Map(Whole, LAMBDA f : f.psdu)
        IN  /\ IsPrefix(got_h, all)
            /\ (is_running /\ Listening) => got_h = all

\* Two sinks, a frame that came short and then one that came whole: one
\* record on each sink.
C18_Witness ==
    /\ Len(sinks) = 2
    /\ is_running /\ Listening
    /\ Len(arrived) = 2 /\ ~arrived[1].whole /\ arrived[2].whole
    /\ \A h \in 1..2 :
          Map(Handled(sinks[h]), LAMBDA r : r.data) = <<arrived[2].psdu>>

\* C19: the time of the record of a frame is the start of the capture plus
\* the raw time for magic 0xC0978C97, plus 16 times the raw time for the
\* other three magics, whatever frames came before it.
C19_RecordTime ==
    \A h \in 1..Len(sinks) :
        \A k \in 1..Len(Handled(sinks[h])) :
            k <= Len(Whole) =>
                Handled(sinks[h])[k].usec =
                    init_ts + (IF Whole[k].i = 4 THEN Whole[k].ts
                               ELSE 16 * Whole[k].ts)

(***************************************************************************)
(* Runs of zeros at the thresholds of the zero-run codes (SpecCobs).       *)
(***************************************************************************)
\* C30 as stated: an input of 15 zero octets is encoded as the single code
\* 0xDF, and an input of 16 zero octets as 0xDF 0x01.
C30_ZeroRunSingleCode ==
    cpc # "encode" =>
        /\ input = Zeros(15) => enc.out = <<223>>
        /\ input = Zeros(16) => enc.out = <<223, 1>>

\* C30, amended: encode works on the input plus its implicit trailing zero,
\* and the two-zeros code 0xE0 takes two zeros of the block before the
\* zero-run codes apply: 15 zero octets are encoded as 0xE0 0xDE and 16
\* zero octets as 0xE0 0xDF.
C30_ZeroRunCodes ==
    cpc # "encode" =>
        /\ input = Zeros(15) => enc.out = <<224, 222>>
        /\ input = Zeros(16) => enc.out = <<224, 223>>

\* An input of 15 zero octets has been encoded.
C30_Witness == cpc = "decode" /\ input = Zeros(15) /\ Len(enc.out) = 2

(***************************************************************************)
(* The DFU file (SpecDfuFile).                                             *)
(***************************************************************************)
\* C29: making a DfuFile fails when the file has fewer than 16 octets or
\* when octets 8..10 of its last 16 octets are not 'UFD'; every other file
\* that can be read gives a DfuFile whose data is the file without its last
\* 16 octets.
C29_DfuFileSuffix ==
    (fpc = "done" /\ readable) =>
        LET n == Len(file_data)
            short == n < 16
            sig == [i \in 1..3 |-> file_data[n - 16 + 8 + i]]
        IN  IF short \/ sig # <<85, 70, 68>>
            THEN ~dfu_file.made /\ dfu_file.raised # "None"
            ELSE /\ dfu_file.made
                 /\ dfu_file.data = [i \in 1..(n - 16) |-> file_data[i]]

\* A file of 18 octets with the signature in place has been read: two
\* octets of firmware.
C29_Witness ==
    /\ fpc = "done" /\ dfu_file.made
    /\ Len(file_data) = 18 /\ dfu_file.data = <<85, 0>>

(***************************************************************************)
(* The KBI flash worker (SpecKbiFlash).                                    *)
(***************************************************************************)
Range(s) == {s[i] : i \in DOMAIN s}

\* The block number a request frame carries: the first two payload octets.
BlockOf(frame) == frame[6] * 256 + frame[7]

\* The response is a valid one of type RESPONSE|VALUE, with the opcode of
\* the request and b in its first two payload octets.
Acks(r, b) ==
    /\ ~r.isNone /\ r.valid
    /\ r.data[3] = crsp_val /\ r.data[4] = CMD_FW_UP
    /\ Len(r.data) >= 7 /\ r.data[6] * 256 + r.data[7] = b

\* The response is a valid one of type RESPONSE|FW-UPDATE-ERROR.
FwuError(r) == ~r.isNone /\ r.valid /\ r.data[3] = crsp_err

\* The response is valid, no error, and does not acknowledge block b.
Unacked(r, b) == ~r.isNone /\ r.valid /\ ~FwuError(r) /\ ~Acks(r, b)

\* The step transmits a block.
Transmits == txcount' # txcount

C22_FwuErrorEnds ==
    /\ [](FwuError(flash_rsp) /\ fwpc # "check" =>
            /\ fwpc = "end"
            /\ queue = <<Outcome("FWU error", None)>>
            /\ resets = 0)
    /\ [][FwuError(flash_rsp) /\ fwpc = "end" =>
            UNCHANGED <<txcount, resets, queue, fwpc>>]_vars

\* The error came as the answer to the second block.
C22_Witness ==
    /\ FwuError(flash_rsp) /\ fwpc = "end"
    /\ bnum = 1 /\ txcount = <<1, 1>>

\* C23: a device that answers no transmission of a block (every kbi_cmd on
\* it ends in a read timeout) gets five transmissions of it, and the outcome
\* is 'Could not send block #b after 5 retries.'
C23_FiveTimeouts ==
    (fwpc = "end" /\ flash_req # <<>> /\ flash_rsp.isNone
        /\ fexc # "SerialException") =>
        /\ txcount[bnum + 1] = 5
        /\ queue =
              <<Outcome("Could not send block after 5 retries.", bnum)>>

IsBlock(e) == e[1] = DFU_DOWNLOAD /\ e[3] > 0
IsLeave(e) == e[1] = DFU_DOWNLOAD /\ e[3] = 0
IsState(e) == e[1] = DFU_GETSTATUS

BlockPos == {p \in 1..Len(dlog) : IsBlock(dlog[p])}

\* The blocks whose DNLOAD was followed by the state DFU_DOWNLOAD_IDLE.
IdlePos ==
    {p \in BlockPos :
        p < Len(dlog) /\ dlog[p + 1] = <<DFU_GETSTATUS, DFU_DOWNLOAD_IDLE, 0>>}

\* The number of blocks of the firmware.
NumBlocks == (Len(dfu_file.data) + 63) \div 64

\* C25: the DNLOAD requests that carry a block carry the indices 0, 1, ...
\* in this order, none beyond N-1; block b+1 is sent right after the state
\* DFU_DOWNLOAD_IDLE was reported for block b; a block whose final state is
\* another one is the last thing sent, and the outcome is 'Error <state>';
\* the zero-length DNLOAD comes after all N blocks reached
\* DFU_DOWNLOAD_IDLE.
C25_BlocksInOrder ==
    /\ \A p \in BlockPos :
          /\ dlog[p][2] = Cardinality({q \in BlockPos : q < p})
          /\ dlog[p][2] < NumBlocks
          /\ dlog[p][2] > 0 =>
                /\ p > 2
                /\ dlog[p - 1] = <<DFU_GETSTATUS, DFU_DOWNLOAD_IDLE, 0>>
                /\ IsBlock(dlog[p - 2]) /\ dlog[p - 2][2] = dlog[p][2] - 1
          /\ (p < Len(dlog) /\ p \notin IdlePos) =>
                /\ IsState(dlog[p + 1])
                /\ Len(dlog) = p + 1
                /\ fwpc = "end"
                /\ queue = <<Outcome("Error", dlog[p + 1][2])>>
    /\ \A p \in 1..Len(dlog) :
          IsLeave(dlog[p]) =>
              /\ Cardinality(IdlePos) = NumBlocks
              /\ \A q \in BlockPos : q < p

\* Two blocks reached DFU_DOWNLOAD_IDLE and the zero-length DNLOAD went out.
C25_Witness ==
    /\ Cardinality(IdlePos) = 2 /\ resets = 1
    /\ IsLeave(dlog[Len(dlog)])

\* The state reported by the GETSTATUS that follows the zero-length DNLOAD,
\* None when there is none.
FinalState ==
    IF Len(dlog) >= 2 /\ IsLeave(dlog[Len(dlog) - 1]) /\ IsState(dlog[Len(dlog)])
    THEN dlog[Len(dlog)][2] ELSE None

\* C26: the outcome OK is on the queue exactly when every block reached
\* DFU_DOWNLOAD_IDLE and the GETSTATUS after the zero-length DNLOAD reported
\* DFU_MANIFEST_SYNC; when it reported another state the outcome is
\* 'Error finish'.
C26_OkIffManifest ==
    /\ Outcome("OK", None) \in Range(queue) <=>
          (Cardinality(IdlePos) = NumBlocks /\ FinalState = DFU_MANIFEST_SYNC)
    /\ FinalState \notin {None, DFU_MANIFEST_SYNC} =>
          queue = <<Outcome("Error finish", None)>>

\* Two blocks were written and the device went to DFU_MANIFEST_SYNC.
C26_Witness ==
    /\ queue = <<Outcome("OK", None)>>
    /\ NumBlocks = 2 /\ FinalState = DFU_MANIFEST_SYNC

\* C27: a worker puts no second outcome on the queue, and when it has ended
\* the queue holds its outcome, whichever way it ended.
C27_OneOutcome ==
    /\ Len(queue) <= 1
    /\ fwpc \in {"end", "dead"} => Len(queue) = 1

(***************************************************************************)
(* Properties of the supervisor (SpecSup).                                 *)
(***************************************************************************)
\* The threads that have been started and have not terminated.
Running == alive + leaving + (IF joinee \in {"alive", "put"} THEN 1 ELSE 0)

\* The devices selected for the run: those a worker was started for and
\* those still waiting for their batch.
Waiting ==
    IF ppc \in {"start", "join", "get", "return"}
       THEN Drop(dfus_selected, nstarted)
       ELSE dfus_selected

\* A batch has at most MAX_PARALLEL_DEVICES devices and as many workers
\* run at most.
BatchCap == Len(batch) <= MAX_PARALLEL_DEVICES /\ Running <= MAX_PARALLEL_DEVICES

\* No worker of a batch is started before every worker of the batch before
\* has terminated.
BatchAfterBatch == [][SupBatch => Running = 0]_vars

\* No device has a worker started for it twice.
FlashedOnce ==
    \A i, j \in 1..Len(flashed) : flashed[i] = flashed[j] => i = j

\* C28: every selected device is flashed in exactly one batch: no device is
\* flashed twice, and the run never comes to rest, every worker terminated
\* and the supervisor not at its end, with a selected device that no worker
\* was started for.
C28_EveryDeviceFlashed ==
    /\ FlashedOnce
    /\ (Running = 0 /\ ~ENABLED SupNext) => Waiting = <<>>

(***************************************************************************)
(* Long data blocks (SpecCobs).                                            *)
(***************************************************************************)
\* The length of the block of non-zero octets the input begins with.
LeadLen(s) == IF s = <<>> \/ s[1] = 0 THEN 0 ELSE BlockLen(s, 1)

\* What encode emits for an input s that begins with n non-zero octets, if
\* every long block is the code 0xD0 and the next take octets of the block:
\* the long blocks, then the encoding of what is left of the input.
RECURSIVE LongOut(_, _, _)
LongOut(s, n, take) ==
    IF n >= 207
    THEN <<208>> \o Take(s, take) \o LongOut(Drop(s, take), n - take, take)
    ELSE encode(EncoderInit, s).out

\* C40 as stated: while a data block has at least 0xCF non-zero octets,
\* encode emits the code 0xD0 followed by 0xCE data octets for each long
\* block, with no implicit trailing zero.
C40_LongBlockCE ==
    (cpc # "encode" /\ LeadLen(input) >= 207) =>
        enc.out = LongOut(input, LeadLen(input), 206)

\* C40, amended: while a data block has at least 0xCF non-zero octets,
\* encode emits the code 0xD0 followed by 0xCF data octets for each long
\* block, with no implicit trailing zero.
C40_LongBlockCF ==
    (cpc # "encode" /\ LeadLen(input) >= 207) =>
        enc.out = LongOut(input, LeadLen(input), 207)

\* An input of 0xCF non-zero octets has been encoded as one long block and
\* the code of an empty block.
C40_Witness ==
    /\ cpc = "decode"
    /\ input = Rep(65, 207)
    /\ enc.out = <<208>> \o Rep(65, 207) \o <<1>>

(***************************************************************************)
(* The decoded length (SpecStream).                                        *)
(***************************************************************************)
\* C37: whenever decode returns a positive value n, get_data() holds
\* exactly n octets, whatever octets were fed.  Read when the reader has
\* the value decode returned and has not yet built the response.
C37_DataHoldsSize ==
    (rpc = "deliver" /\ size > 0) => Len(dec_get_data(decoded)) = size

(***************************************************************************)
(* Text commands with parameters (SpecText).                               *)
(***************************************************************************)
\* C31: text_to_kbi accepts a command with one argument fewer than the
\* entry's coercers only when the entry is marked lastParamOptional; for an
\* entry without the mark a missing argument yields the null result
\* (None, None, None), and the request built from it is not valid, which
\* ksh_cmd shows as 'Syntax error'.
C31_OptionalOnlyWhenMarked ==
    (/\ tpc = "done"
     /\ Len(targs) + 1 = Len(TEXT2CLI_params[tkey].params)
     /\ ~TEXT2CLI_params[tkey].lastParamOptional)
    => (tout = <<None, None, None>> /\ ~is_valid(kcmd))

(***************************************************************************)
(* Value responses the printer table does not know (SpecPoll).             *)
(***************************************************************************)
\* C32: kbi_to_text returns the string 'Wrong value or parser not
\* implemented' for every VALUE response whose (type, code) pair is not in
\* the printer table, without raising.  Read when ksh_cmd has handed the
\* valid response to its request, a VALUE response, to to_text.
C32_UnknownPairText ==
    (/\ pc \in {"done", "raised"}
     /\ got # <<>>
     /\ ~got[Len(got)].isNone
     /\ get_code(got[Len(got)]) = get_code(kbi_req)
     /\ get_type(got[Len(got)]) \in {BitOr(CT_RSC, RC_VALUE), BitOr(CT_RSG, RC_VALUE)}
     /\ <<get_type(got[Len(got)]), get_code(got[Len(got)])>> \notin DOMAIN CLI2TEXT)
    => (/\ exc = "None"
        /\ cmd_out = <<Line("Wrong value or parser not implemented")>>)

C34_NeverBlocked == ~(ppc = "get" /\ qsize = 0 /\ Running = 0)

(***************************************************************************)
(* The frame header in a stream (SpecHdr).                                 *)
(***************************************************************************)
Magics == {REPRS[i].mgc : i \in 1..4}
MagicAt(fed, p) == CHOOSE i \in 1..4 : REPRS[i].mgc = SubSeq(fed, p - 3, p)

\* The value due for the octets f that follow the magic number of REPRS[i].
HdrValue(i, f) ==
    [frame_len |-> f[1] * 256 + f[2],
     tstamp |-> IF i = 1 THEN BE(SubSeq(f, 3, 6)) ELSE BE(SubSeq(f, 5, 10)),
     rssi |-> IF i \in {3, 4} THEN f[3] ELSE 0,
     lqi |-> IF i \in {3, 4} THEN f[4] ELSE 0]

\* What add_byte is to return for each octet of fed from index s on, where
\* scanning starts at s: no value up to the first index p whose last four
\* octets since s are a magic number and for the 6 or 10 octets after it
\* but the last, the value at the last, and scanning again after that.
RECURSIVE HdrDue(_, _)
HdrDue(fed, s) ==
    LET locks == {p \in (s + 3)..Len(fed) : SubSeq(fed, p - 3, p) \in Magics}
        p == CHOOSE q \in locks : \A r \in locks : q <= r
        i == MagicAt(fed, p)
        k == p + (IF i = 1 THEN 6 ELSE 10)
    IN  IF locks = {} \/ k > Len(fed)
        THEN [n \in 1..(Len(fed) - s + 1) |-> NoFrame]
        ELSE [n \in 1..(k - s) |-> NoFrame]
                 \o <<HdrValue(i, SubSeq(fed, p + 1, k))>> \o HdrDue(fed, k + 1)

\* C39: add_byte locks onto a header exactly when the last four octets fed
\* while scanning equal one of the four magic numbers, at any offset in the
\* stream; it returns (frame_len, timestamp, rssi, lqi) after exactly 6
\* further octets for 0xC11FFE72 and 10 for the other magic numbers, with
\* timestamp the low 48 bits of the field, rssi and lqi the top two octets
\* of the 8-octet field for 0xB8978C97 and 0xC0978C97 and 0 otherwise, and
\* no value on every other octet.
C39_HeaderInStream == hrets = HdrDue(hfed, 1)

\* Behind three octets of junk that begin like a magic number, a header of
\* 0xB8978C97 whose length and top octets spell 0xC11FFE72 has been
\* returned, and only that.
C39_Witness ==
    /\ hfed = <<193, 31, 193, 184, 151, 140, 151,
                193, 31, 254, 114, 0, 0, 0, 0, 0, 3>>
    /\ hrets[17] = [frame_len |-> 49439, tstamp |-> 3, rssi |-> 254, lqi |-> 114]
    /\ \A n \in 1..16 : hrets[n] = NoFrame

(***************************************************************************)
(* The capture threads of a sniffer (SpecSnif).                            *)
(***************************************************************************)
\* the capture threads that have not left receive
AliveThreads == {t \in 1..Len(threads) : threads[t].pc \notin {"ended", "dead"}}

\* C38: for any sequence of start and stop calls at most one capture thread
\* is alive at any time, and when stop() has returned every capture thread
\* started before it has terminated.
C38_OneCaptureThread ==
    /\ Cardinality(AliveThreads) <= 1
    /\ (api.op = "stop" /\ api.ret = "None" /\ spc = "idle") => AliveThreads = {}

(***************************************************************************)
(* Whose reply a call returns (SpecUsb).                                   *)
(***************************************************************************)
\* the call has returned lines taken from what the device sent
ReturnedDeviceLines ==
    /\ pc = "done"
    /\ cmd_out \notin {<<>>, <<Line("Serial problem")>>}

\* C35: for any sequence of command calls on one transport, calls made
\* with no_response and calls that timed out included, the output a call
\* returns is built only from octets the device sent in reply to that
\* call's own request, never from the reply to an earlier request.  The
\* device answers the requests in the order they were written, so a call
\* that returns lines of the device while its own request is still
\* unanswered has returned the reply to an earlier one.
C35_OwnReplyOnly == ReturnedDeviceLines => inbox = <<>>

(***************************************************************************)
(* The two transports on the same attempt outcomes (SpecEq).               *)
(***************************************************************************)
BothEnded == eq_poll.pc \in {"done", "raised"} /\ eq_th.pc \in {"done", "raised"}

\* C36: for the same valid binary-mode request and the same sequence of
\* attempt outcomes (valid response with matching opcode, valid response
\* with another opcode, framing error, no response within the timeout)
\* KiSerial.ksh_cmd and KiSerialTh.ksh_cmd transmit the request the same
\* number of times and return the same result.
C36_SameOnBothTransports ==
    BothEnded =>
        /\ eq_poll.tx = eq_th.tx
        /\ eq_poll.cmd_out = eq_th.cmd_out
        /\ eq_poll.exc = eq_th.exc

=============================================================================
